---- MODULE Spec2Model ----
(***************************************************************************)
(* A model of molminer's entity reconciliation and annotation pipeline:    *)
(*   - the database annotation loops of ChemSpot.process and OSRA.process  *)
(*     (specification SpecAnnot);                                          *)
(*   - ChemSpot.parse_chemspot (specification SpecParse);                  *)
(*   - the post-processing of ChemSpot.process, OSRA.process and the merge *)
(*     of Extractor.process (specification SpecPipe);                      *)
(*   - the page of an entity in ChemSpot.process (specification SpecPage); *)
(*   - the conversion of ions in ChemSpot.process (specification SpecIon); *)
(*   - the backend runs and conversion loops of OPSIN.process,             *)
(*     OSRA.process and ChemSpot.process (specification SpecConv);         *)
(*   - the columns and structure identifiers of the entities returned by   *)
(*     ChemSpot.process, OSRA.process and Extractor.process with annotate, *)
(*     convert_ions and opsin_types (specification SpecSchema);            *)
(*   - the head of OPSIN.process, ChemSpot.process and OSRA.process up to  *)
(*     the run of the backend, with dry_run, and ChemSpot.process on rows  *)
(*     in IOB format (specification SpecEntry).                            *)
(***************************************************************************)
EXTENDS Integers, Sequences, FiniteSets, TLC

\* ------------------------------------------------------------------ bounds

\* Largest number of entities in one annotated batch.
MaxEnts == 2

\* Largest number of physical lines in one ChemSpot output.
MaxLines == 3

\* Largest number of structures OSRA recognizes in one document.
MaxStructs == 2

\* Largest number of entities ChemSpot detects in one document.
MaxDetected == 3

\* Largest number of pages of a paged text, and of characters of a page.
MaxPages == 3
MaxPageLen == 3

\* Largest number of characters between the parentheses of an ion.
MaxChargeLen == 3

\* Largest number of items in one batch given to OPSIN or printed by OSRA.
MaxItems == 3

\* ------------------------------------------------------- program constants

\* ChemSpot.process: for _ in range(2)
NumPasses == 2

\* ------------------------------------------------------------------- state

VARIABLES
    mode,           \* "chemspot" (ChemSpot.process) or "osra" (OSRA.process)
    n,              \* len(to_return["content"])
    i,              \* 1-based position of the for loop over the content
    ent,            \* the entity the loop is annotating (the dict `ent`)
    pass,           \* 1-based iteration of `for _ in range(2)`
    pc,             \* position inside the loop body
    sf,             \* 1-based position in the search_field list
    found_in_pch,   \* the local flag found_in_pch
    found_in_chs,   \* the local flag found_in_chs
    results_pch,    \* the local results_pch: number of results, capped at 2
    results_chs,    \* the local results_chs
    exc,            \* the exception that left process(), "" when none
    log,            \* history: database calls and sleeps made for this entity
    last,           \* history: the database call of the step just taken and
                    \*          what it returned, NoLast when it made none
    key0,           \* history: the entity's inchikey when its annotation began
    writer,         \* history: database whose unique hit first assigned the
                    \*          identifiers in the current pass, "" when none
    annotated       \* history: entities whose annotation ran to its end

annVars == <<mode, n, i, ent, pass, pc, sf, found_in_pch, found_in_chs,
             results_pch, results_chs, exc, log, last, key0, writer, annotated>>

\* parse_chemspot
VARIABLES
    pin,            \* the ChemSpot output: its physical lines, each the list
                    \* of the tab-separated fields it is written from
    rows,           \* the local rows
    ridx,           \* 1-based position of rows_enumerator
    rows_new,       \* the local rows_new
    perr,           \* the exception that left parse_chemspot, "" when none
    ppc             \* position in parse_chemspot

parseVars == <<pin, rows, ridx, rows_new, perr, ppc>>

\* ChemSpot.process, OSRA.process and Extractor.process after the backends ran
VARIABLES
    cfg,            \* the call: entry point and keyword arguments
    osra_in,        \* the structures OSRA recognizes, each by its page
    chs_in,         \* the entities parse_chemspot returned
    ocsr,           \* Extractor.process: the local ocsr
    ner,            \* to_return["content"] of ChemSpot.process
    to_convert,     \* the local to_convert
    opsin_converted,\* the rest of the iterator opsin_converted
    cidx,           \* 1-based position of the loop over the text entities
    results,        \* the list the entry point returns
    file,           \* the output file
    xerr,           \* the exception that left the entry point, "" when none
    xpc             \* position in the entry point

pipeVars == <<cfg, osra_in, chs_in, ocsr, ner, to_convert, opsin_converted,
              cidx, results, file, xerr, xpc>>

\* ChemSpot.process: the page of an entity
VARIABLES
    input_pages,    \* input_text.split("\f"): every page by its length and
                    \* whether page.strip() is empty
    start,          \* ent["start"], a str of digits
    page_ends,      \* the local page_ends
    page,           \* ent["page"]
    gpc             \* position in the page assignment

pageVars == <<input_pages, start, page_ends, page, gpc>>

\* ChemSpot.process: the conversion of ions
VARIABLES
    ion_entity,     \* ent["entity"], a str as the sequence of its characters
    match_ion,      \* the local match_ion: None or the groupdict
    match_charge,   \* the local match_charge
    smiles,         \* the local smiles
    ion_ids,        \* ent["smiles"], ent["inchi"], ent["inchikey"]
    ipc             \* position in the conversion

ionVars == <<ion_entity, match_ion, match_charge, smiles, ion_ids, ipc>>

\* OPSIN.process and OSRA.process: the loop over the backend's output
VARIABLES
    backend,        \* "opsin" (OPSIN.process) or "osra" (OSRA.process)
    proc,           \* the backend process: the number of lines it was given,
                    \* its exit code, "OutOfMemoryError" in its stderr
    outputs,        \* what the backend printed: one outcome per line
    item,           \* 1-based position of the loop over the items
    compounds,      \* the local compounds
    opsin_e,        \* OPSIN.process: the local e, -1 when it is unbound
    cerr,           \* the exception that left process(), "" when none
    cpc             \* position in process()

convVars == <<backend, proc, outputs, item, compounds, opsin_e, cerr, cpc>>

\* The columns of the returned entities
VARIABLES
    flags,          \* the call: entry point, annotate, convert_ions, whether
                    \* opsin_types is non-empty
    detected,       \* the entities ChemSpot detects, each by its kind and by
                    \* what the databases hold for it
    structures,     \* the structures OSRA converts, each by what the
                    \* databases hold for it
    ner_content,    \* ner["content"] / to_return["content"] of ChemSpot.process
    ocsr_content,   \* ocsr["content"] / to_return["content"] of OSRA.process
    merged,         \* results of Extractor.process
    spos,           \* 1-based position of ChemSpot.process's loop
    serr,           \* the exception raised, "" for none
    spc

schemaVars == <<flags, detected, structures, ner_content, ocsr_content, merged,
                spos, serr, spc>>

\* The head of a process method
VARIABLES
    call_args,        \* the method called and its keyword arguments
    chemspot_rows,    \* the rows of ChemSpot's output, each by its type
    subprocess_calls, \* how many times the backend was run
    retval,           \* what the method returns: "" not yet, the command,
                      \* or to_return with its content
    has_to_convert,   \* the local to_convert is not empty
    epos,             \* 1-based position of ChemSpot.process's loop
    eerr,             \* the exception raised, "" for none
    epc

entryVars == <<call_args, chemspot_rows, subprocess_calls, retval,
               has_to_convert, epos, eerr, epc>>

vars == <<annVars, parseVars, pipeVars, pageVars, ionVars, convVars, schemaVars,
          entryVars>>

\* What the steps of one part of the program leave alone.
notAnnVars == <<parseVars, pipeVars, pageVars, ionVars, convVars, schemaVars,
    entryVars>>
notParseVars == <<annVars, pipeVars, pageVars, ionVars, convVars, schemaVars,
    entryVars>>
notPipeVars == <<annVars, parseVars, pageVars, ionVars, convVars, schemaVars,
    entryVars>>
notPageVars == <<annVars, parseVars, pipeVars, ionVars, convVars, schemaVars,
    entryVars>>
notIonVars == <<annVars, parseVars, pipeVars, pageVars, convVars, schemaVars,
    entryVars>>
notConvVars == <<annVars, parseVars, pipeVars, pageVars, ionVars, schemaVars,
    entryVars>>
notSchemaVars == <<annVars, parseVars, pipeVars, pageVars, ionVars, convVars,
    entryVars>>
notEntryVars == <<annVars, parseVars, pipeVars, pageVars, ionVars, convVars,
    schemaVars>>

\* ------------------------------------------------------------------ values

\* The elements of a sequence.
Range(seq) == { seq[k] : k \in 1..Len(seq) }

\* A key that the dict does not hold.
Absent == "<absent>"

\* Python truthiness of a dict value or a result attribute (None, "" are falsy).
Truthy(v) == v # Absent /\ v # ""

\* "*" in smiles
HasStar(v) == v = "o*"

\* The entity before annotation: no identifier keys at all (opsin_types empty
\* and convert_ions off), empty identifiers, a converted structure, a SMILES
\* without InChI (ChemSpot.py line 446), a SMILES holding a wildcard atom.
IdPresets ==
    { <<Absent, Absent, Absent>>, <<"", "", "">>, <<"o", "o", "o">>,
      <<"o", "", "">>, <<"o*", "", "">> }

\* OSRA compounds always carry the three keys once annotate is set
\* (OSRA.py line 401) and a SMILES (line 504).
OsraIdPresets == { <<"o", "o", "o">>, <<"o", "", "">>, <<"o*", "", "">> }

EntityTypes == {"SYSTEMATIC", "FORMULA"}

NoCols ==
    [ pch_cids_by_inchikey |-> Absent, chs_cids_by_inchikey |-> Absent,
      pch_cids_by_name |-> Absent, chs_cids_by_name |-> Absent,
      pch_cids_by_smiles |-> Absent, chs_cids_by_smiles |-> Absent,
      pch_cids_by_inchi |-> Absent, chs_cids_by_inchi |-> Absent,
      pch_cids_by_formula |-> Absent,
      pch_iupac_name |-> Absent, chs_common_name |-> Absent,
      pch_synonyms |-> Absent ]

MkEnt(t, ids) ==
    [ entity |-> "name", type |-> t,
      smiles |-> ids[1], inchi |-> ids[2], inchikey |-> ids[3] ] @@ NoCols

NoEnt == MkEnt("", <<Absent, Absent, Absent>>)

ChemSpotEnts == { MkEnt(t, ids) : t \in EntityTypes, ids \in IdPresets }
OsraEnts == { MkEnt("2d_structure", ids) : ids \in OsraIdPresets }

\* --------------------------------------------------------------- databases

NoHit == [smiles |-> "", inchi |-> "", inchikey |-> "", names |-> ""]

\* A compound record of one database: each identifier is its own canonical
\* form or missing (None); so are its names (synonyms, IUPAC or common name).
Hits(v) ==
    { [smiles |-> s, inchi |-> c, inchikey |-> k, names |-> v] :
        s \in {"", v}, c \in {"", v}, k \in {"", v} }
    \cup { [smiles |-> v, inchi |-> v, inchikey |-> v, names |-> ""] }

\* What one database call can do: raise ("fail"), return no, one or several
\* compounds.
Outcomes(v) ==
    { [out |-> o, hit |-> NoHit] : o \in {"fail", "none", "many"} }
    \cup { [out |-> "one", hit |-> h] : h \in Hits(v) }

PchOutcomes == Outcomes("p")
ChsOutcomes == Outcomes("c")

\* The same for a search of which only the number of results is used.
CountOutcomes ==
    { [out |-> o, hit |-> NoHit] : o \in {"fail", "none", "one", "many"} }

\* The hit carries at least one of the three identifiers.
HasIds(h) == Truthy(h.smiles) \/ Truthy(h.inchi) \/ Truthy(h.inchikey)

\* len(results), capped
NumResults(r) == CASE r.out = "one" -> 1 [] r.out = "many" -> 2 [] OTHER -> 0

\* "\"{}\"".format(",".join([str(c.cid) for c in results]))
CidList(k) == IF k = 1 THEN "\"1\"" ELSE "\"1,2\""

Call(db, kind) == [ev |-> "call", db |-> db, kind |-> kind, pass |-> pass]
Sleep(what) == [ev |-> "sleep", db |-> "", kind |-> what, pass |-> pass]
NoLast == [db |-> "", kind |-> "", out |-> "", hit |-> NoHit]
Last(db, kind, r) == [db |-> db, kind |-> kind, out |-> r.out, hit |-> r.hit]

\* --------------------------------------- ChemSpot.process: annotation steps

\* Mutant of OrKeep: ent[f] = v, without the "or ent[f]" fallback.
OrKeepNoFallback(e, f, v) == [ent |-> [e EXCEPT ![f] = v], exc |-> ""]

\* ent[f] = v or ent[f]: a missing key is read only when v is falsy.
OrKeep(e, f, v) ==
    IF Truthy(v) THEN [ent |-> [e EXCEPT ![f] = v], exc |-> ""]
    ELSE IF e[f] = Absent THEN [ent |-> e, exc |-> "KeyError"]
    ELSE [ent |-> e, exc |-> ""]

\* The three assignments of smiles, inchi and inchikey from a unique hit, in
\* the order of the code; a KeyError ends them.
UpdateIds(e, h) ==
    LET a == OrKeep(e, "smiles", h.smiles)
        b == IF a.exc = "" THEN OrKeep(a.ent, "inchi", h.inchi) ELSE a
    IN  IF b.exc = "" THEN OrKeep(b.ent, "inchikey", h.inchikey) ELSE b

\* if synonyms: ent["pch_synonyms"] = ...
SetSynonyms(e, h) ==
    IF Truthy(h.names) THEN [e EXCEPT !.pch_synonyms = "\"syn\""] ELSE e

\* Mutant of SearchPch: PubChem is searched while either database lacks a hit.
SearchPchEither(fp, fc) == ~fp \/ ~fc

\* The gate in front of each PubChem search of the name branch.
SearchPch(fp, fc) == (~fp /\ ~fc) \/ (~fp /\ fc)

\* The gate in front of each ChemSpider search of the name branch.
SearchChs(fp, fc) == (~fp /\ ~fc) \/ (fp /\ ~fc)

\* Mutant of PreferInchikey: the test of the value inverted.
PreferInchikeyInverted(e) == e.inchikey # Absent /\ ~Truthy(e.inchikey)

\* if "inchikey" in ent and ent["inchikey"]
PreferInchikey(e) == e.inchikey # Absent /\ Truthy(e.inchikey)

\* The body of the try block of the PubChem InChIKey search.
\* [ent, exc, wrote]: the entity after it, the exception that escaped, whether
\* the identifier assignments ran.
PchByInchikey(e, r, fc) ==
    IF r.out \in {"fail", "none"} THEN [ent |-> e, exc |-> "", wrote |-> FALSE]
    ELSE IF r.out = "many"
    THEN [ent |-> [e EXCEPT !.pch_cids_by_inchikey = CidList(2)],
          exc |-> "", wrote |-> FALSE]
    ELSE LET e1 == [SetSynonyms(e, r.hit) EXCEPT !.pch_iupac_name = r.hit.names]
             u  == IF ~fc THEN UpdateIds(e1, r.hit) ELSE [ent |-> e1, exc |-> ""]
         IN  IF u.exc # "" THEN [ent |-> u.ent, exc |-> u.exc, wrote |-> ~fc]
             ELSE [ent |-> [u.ent EXCEPT !.pch_cids_by_inchikey = CidList(1)],
                   exc |-> "", wrote |-> ~fc]

\* The ChemSpider InChIKey search: no try block around it.
ChsByInchikey(e, r, fp) ==
    IF r.out = "fail" THEN [ent |-> e, exc |-> "ChemSpiPyError", wrote |-> FALSE]
    ELSE IF r.out = "none" THEN [ent |-> e, exc |-> "", wrote |-> FALSE]
    ELSE IF r.out = "many"
    THEN [ent |-> [e EXCEPT !.chs_cids_by_inchikey = CidList(2)],
          exc |-> "", wrote |-> FALSE]
    ELSE LET e1 == [e EXCEPT !.chs_common_name = r.hit.names]
             u  == IF ~fp THEN UpdateIds(e1, r.hit) ELSE [ent |-> e1, exc |-> ""]
         IN  IF u.exc # "" THEN [ent |-> u.ent, exc |-> u.exc, wrote |-> ~fp]
             ELSE [ent |-> [u.ent EXCEPT !.chs_cids_by_inchikey = CidList(1)],
                   exc |-> "", wrote |-> ~fp]

\* The body of the try block of the PubChem name search.
\* found: the value of found_in_pch after it.
PchByName(e, r, fp, fc) ==
    IF r.out \in {"fail", "none"}
    THEN [ent |-> e, exc |-> "", wrote |-> FALSE, found |-> fp]
    ELSE IF r.out = "many"
    THEN [ent |-> [e EXCEPT !.pch_cids_by_name = CidList(2)],
          exc |-> "", wrote |-> FALSE, found |-> fp]
    ELSE LET e1 == SetSynonyms(e, r.hit)
             u  == IF ~fc THEN UpdateIds(e1, r.hit) ELSE [ent |-> e1, exc |-> ""]
         IN  IF u.exc # ""
             THEN [ent |-> u.ent, exc |-> u.exc, wrote |-> ~fc, found |-> TRUE]
             ELSE [ent |-> [u.ent EXCEPT !.pch_iupac_name = r.hit.names,
                                         !.pch_cids_by_name = CidList(1)],
                   exc |-> "", wrote |-> ~fc, found |-> TRUE]

\* The ChemSpider name search.
ChsByName(e, r, fp, fc) ==
    IF r.out = "fail"
    THEN [ent |-> e, exc |-> "ChemSpiPyError", wrote |-> FALSE, found |-> fc]
    ELSE IF r.out = "none"
    THEN [ent |-> e, exc |-> "", wrote |-> FALSE, found |-> fc]
    ELSE IF r.out = "many"
    THEN [ent |-> [e EXCEPT !.chs_cids_by_name = CidList(2)],
          exc |-> "", wrote |-> FALSE, found |-> fc]
    ELSE LET u == IF ~fp THEN UpdateIds(e, r.hit) ELSE [ent |-> e, exc |-> ""]
         IN  IF u.exc # ""
             THEN [ent |-> u.ent, exc |-> u.exc, wrote |-> ~fp, found |-> TRUE]
             ELSE [ent |-> [u.ent EXCEPT !.chs_common_name = r.hit.names,
                                         !.chs_cids_by_name = CidList(1)],
                   exc |-> "", wrote |-> ~fp, found |-> TRUE]

\* The (search_field, col_pch, col_chs) list of the name branch.
SearchFields ==
    << [field |-> "smiles", col_pch |-> "pch_cids_by_smiles",
        col_chs |-> "chs_cids_by_smiles"],
       [field |-> "inchi", col_pch |-> "pch_cids_by_inchi",
        col_chs |-> "chs_cids_by_inchi"],
       [field |-> "formula", col_pch |-> "pch_cids_by_formula", col_chs |-> ""] >>

\* The if/elif chain that picks what one search_field iteration searches by:
\* the field itself, or "" when the iteration searches nothing.
FieldSearched(e, f) ==
    IF f = "smiles" /\ e.smiles # Absent /\ Truthy(e.smiles) /\ ~HasStar(e.smiles)
    THEN "smiles"
    ELSE IF f = "inchi" /\ e.inchi # Absent /\ Truthy(e.inchi) THEN "inchi"
    ELSE IF f = "formula" THEN "formula"
    ELSE ""

\* ChemSpider has no search by formula.
ChsSearchable(f) == f \in {"smiles", "inchi"}

\* Mutant of BreakAfterPass: only the PubChem flag is looked at.
BreakAfterPassPchOnly(fp, fc) == ~fp

\* if not found_in_pch and not found_in_chs: break
BreakAfterPass(fp, fc) == ~fp /\ ~fc

\* ------------------------------------------------- the annotation loop

\* for i, ent in enumerate(to_return["content"]): the next entity, as the
\* earlier steps of the loop body left it, or the end of the loop.
NextEntity ==
    /\ pc = "next"
    /\ IF i < n
       THEN /\ i' = i + 1
            /\ ent' \in (IF mode = "chemspot" THEN ChemSpotEnts ELSE OsraEnts)
            /\ pc' = "annotate"
       ELSE /\ pc' = "done"
            /\ UNCHANGED <<i, ent>>
    /\ last' = NoLast
    /\ UNCHANGED <<mode, n, pass, sf, found_in_pch, found_in_chs, results_pch,
                   results_chs, exc, log, key0, writer, annotated>>
    /\ UNCHANGED notAnnVars

\* ent.update(...) with the twelve empty annotation columns, the two flags.
EmptyColumns(e) ==
    [ e EXCEPT !.pch_cids_by_inchikey = "", !.chs_cids_by_inchikey = "",
               !.pch_cids_by_name = "", !.chs_cids_by_name = "",
               !.pch_cids_by_smiles = "", !.chs_cids_by_smiles = "",
               !.pch_cids_by_inchi = "", !.chs_cids_by_inchi = "",
               !.pch_cids_by_formula = "",
               !.pch_iupac_name = "", !.chs_common_name = "",
               !.pch_synonyms = "" ]

AnnotateInit ==
    /\ mode = "chemspot" /\ pc = "annotate"
    /\ ent' = EmptyColumns(ent)
    /\ found_in_pch' = FALSE
    /\ found_in_chs' = FALSE
    /\ pass' = 1
    /\ pc' = "pass_start"
    /\ log' = << >>
    /\ last' = NoLast
    /\ key0' = ent.inchikey
    /\ writer' = ""
    /\ UNCHANGED <<mode, n, i, sf, results_pch, results_chs, exc, annotated>>
    /\ UNCHANGED notAnnVars

\* The head of one pass: results = [] and the choice of the branch.
PassStart ==
    /\ mode = "chemspot" /\ pc = "pass_start"
    /\ pc' = IF PreferInchikey(ent) THEN "ik_pch" ELSE "nm_pch"
    /\ writer' = ""
    /\ last' = NoLast
    /\ UNCHANGED <<mode, n, i, ent, pass, sf, found_in_pch, found_in_chs,
                   results_pch, results_chs, exc, log, key0, annotated>>
    /\ UNCHANGED notAnnVars

InchikeyPubChem ==
    /\ mode = "chemspot" /\ pc = "ik_pch"
    /\ \E r \in PchOutcomes :
         LET res == PchByInchikey(ent, r, found_in_chs) IN
         /\ ent' = res.ent
         /\ exc' = res.exc
         /\ pc' = IF res.exc # "" THEN "raised" ELSE "ik_chs"
         /\ writer' = IF res.wrote /\ HasIds(r.hit) /\ writer = ""
                            THEN "pch" ELSE writer
         /\ last' = Last("pch", "inchikey", r)
    /\ log' = Append(log, Call("pch", "inchikey"))
    /\ UNCHANGED <<mode, n, i, pass, sf, found_in_pch, found_in_chs,
                   results_pch, results_chs, key0, annotated>>
    /\ UNCHANGED notAnnVars

InchikeyChemSpider ==
    /\ mode = "chemspot" /\ pc = "ik_chs"
    /\ \E r \in ChsOutcomes :
         LET res == ChsByInchikey(ent, r, found_in_pch) IN
         /\ ent' = res.ent
         /\ exc' = res.exc
         /\ pc' = IF res.exc # "" THEN "raised" ELSE "end_pass"
         /\ writer' = IF res.wrote /\ HasIds(r.hit) /\ writer = ""
                            THEN "chs" ELSE writer
         /\ last' = Last("chs", "inchikey", r)
    /\ log' = Append(log, Call("chs", "inchikey"))
    /\ UNCHANGED <<mode, n, i, pass, sf, found_in_pch, found_in_chs,
                   results_pch, results_chs, key0, annotated>>
    /\ UNCHANGED notAnnVars

NamePubChem ==
    /\ mode = "chemspot" /\ pc = "nm_pch"
    /\ IF SearchPch(found_in_pch, found_in_chs)
       THEN /\ \E r \in PchOutcomes :
                 LET res == PchByName(ent, r, found_in_pch, found_in_chs) IN
                 /\ ent' = res.ent
                 /\ exc' = res.exc
                 /\ found_in_pch' = res.found
                 /\ pc' = IF res.exc # "" THEN "raised" ELSE "nm_chs"
                 /\ writer' = IF res.wrote /\ HasIds(r.hit) /\ writer = ""
                            THEN "pch" ELSE writer
                 /\ last' = Last("pch", "name", r)
            /\ log' = Append(log, Call("pch", "name"))
       ELSE /\ pc' = "nm_chs"
            /\ last' = NoLast
            /\ UNCHANGED <<ent, exc, found_in_pch, writer, log>>
    /\ UNCHANGED <<mode, n, i, pass, sf, found_in_chs, results_pch,
                   results_chs, key0, annotated>>
    /\ UNCHANGED notAnnVars

NameChemSpider ==
    /\ mode = "chemspot" /\ pc = "nm_chs"
    /\ IF SearchChs(found_in_pch, found_in_chs)
       THEN /\ \E r \in ChsOutcomes :
                 LET res == ChsByName(ent, r, found_in_pch, found_in_chs) IN
                 /\ ent' = res.ent
                 /\ exc' = res.exc
                 /\ found_in_chs' = res.found
                 /\ pc' = IF res.exc # "" THEN "raised" ELSE "sf_pch"
                 /\ writer' = IF res.wrote /\ HasIds(r.hit) /\ writer = ""
                            THEN "chs" ELSE writer
                 /\ last' = Last("chs", "name", r)
            /\ log' = Append(log, Call("chs", "name"))
       ELSE /\ pc' = "sf_pch"
            /\ last' = NoLast
            /\ UNCHANGED <<ent, exc, found_in_chs, writer, log>>
    /\ sf' = 1
    /\ UNCHANGED <<mode, n, i, pass, found_in_pch, results_pch, results_chs,
                   key0, annotated>>
    /\ UNCHANGED notAnnVars

\* One search_field iteration, its PubChem half: results_pch = [],
\* results_chs = [] and the gated PubChem search.
FieldPubChem ==
    /\ mode = "chemspot" /\ pc = "sf_pch"
    /\ LET f == FieldSearched(ent, SearchFields[sf].field) IN
       IF f # "" /\ SearchPch(found_in_pch, found_in_chs)
       THEN /\ \E r \in CountOutcomes :
                 /\ results_pch' = NumResults(r)
                 /\ last' = Last("pch", f, r)
            /\ log' = Append(log, Call("pch", f))
       ELSE /\ results_pch' = 0
            /\ last' = NoLast
            /\ UNCHANGED <<log>>
    /\ results_chs' = 0
    /\ pc' = "sf_chs"
    /\ UNCHANGED <<mode, n, i, ent, pass, sf, found_in_pch, found_in_chs,
                   exc, key0, writer, annotated>>
    /\ UNCHANGED notAnnVars

\* Its ChemSpider half.
FieldChemSpider ==
    /\ mode = "chemspot" /\ pc = "sf_chs"
    /\ LET f == FieldSearched(ent, SearchFields[sf].field) IN
       IF ChsSearchable(f) /\ SearchChs(found_in_pch, found_in_chs)
       THEN /\ \E r \in CountOutcomes :
                 /\ results_chs' = NumResults(r)
                 /\ exc' = IF r.out = "fail" THEN "ChemSpiPyError" ELSE ""
                 /\ pc' = IF r.out = "fail" THEN "raised" ELSE "sf_write"
                 /\ last' = Last("chs", f, r)
            /\ log' = Append(log, Call("chs", f))
       ELSE /\ pc' = "sf_write"
            /\ last' = NoLast
            /\ UNCHANGED <<results_chs, exc, log>>
    /\ UNCHANGED <<mode, n, i, ent, pass, sf, found_in_pch, found_in_chs,
                   results_pch, key0, writer, annotated>>
    /\ UNCHANGED notAnnVars

\* The end of the iteration: the two columns, sleep(0.5).
WriteColumns(e, f, rp, rc) ==
    LET e1 == IF rp > 0 THEN [e EXCEPT ![f.col_pch] = CidList(rp)] ELSE e
    IN  IF rc > 0 THEN [e1 EXCEPT ![f.col_chs] = CidList(rc)] ELSE e1

FieldWrite ==
    /\ mode = "chemspot" /\ pc = "sf_write"
    /\ ent' = WriteColumns(ent, SearchFields[sf], results_pch, results_chs)
    /\ log' = Append(log, Sleep("0.5"))
    /\ IF sf < Len(SearchFields)
       THEN sf' = sf + 1 /\ pc' = "sf_pch"
       ELSE sf' = sf /\ pc' = "end_pass"
    /\ last' = NoLast
    /\ UNCHANGED <<mode, n, i, pass, found_in_pch, found_in_chs, results_pch,
                   results_chs, exc, key0, writer, annotated>>
    /\ UNCHANGED notAnnVars

\* sleep(annotation_sleep), the break, and the end of range(2).
EndPass ==
    /\ mode = "chemspot" /\ pc = "end_pass"
    /\ log' = Append(log, Sleep("annotation_sleep"))
    /\ IF BreakAfterPass(found_in_pch, found_in_chs) \/ pass >= NumPasses
       THEN /\ pc' = "next"
            /\ annotated' = annotated + 1
            /\ pass' = pass
       ELSE /\ pc' = "pass_start"
            /\ pass' = pass + 1
            /\ annotated' = annotated
    /\ last' = NoLast
    /\ UNCHANGED <<mode, n, i, ent, sf, found_in_pch, found_in_chs,
                   results_pch, results_chs, exc, key0, writer>>
    /\ UNCHANGED notAnnVars

\* ------------------------------------------- OSRA.process: annotation steps

\* ent.update(...) with the nine empty annotation columns of OSRA.
OsraEmptyColumns(e) ==
    [ e EXCEPT !.pch_cids_by_inchikey = "", !.chs_cids_by_inchikey = "",
               !.pch_cids_by_smiles = "", !.chs_cids_by_smiles = "",
               !.pch_cids_by_inchi = "", !.chs_cids_by_inchi = "",
               !.pch_iupac_name = "", !.chs_common_name = "",
               !.pch_synonyms = "" ]

\* The (search_field, col_pch, col_chs) list of OSRA.process.
OsraSearchFields == SubSeq(SearchFields, 1, 2)

\* The if/elif chain of OSRA.process.
OsraFieldSearched(e, f) ==
    IF f = "smiles" /\ e.smiles # Absent /\ Truthy(e.smiles) /\ ~HasStar(e.smiles)
    THEN "smiles"
    ELSE IF f = "inchi" /\ e.inchi # Absent /\ Truthy(e.inchi) THEN "inchi"
    ELSE ""

\* The body of the try block of the PubChem InChIKey search.
OsraPchByInchikey(e, r) ==
    IF r.out \in {"fail", "none"} THEN e
    ELSE IF r.out = "many" THEN [e EXCEPT !.pch_cids_by_inchikey = CidList(2)]
    ELSE [SetSynonyms(e, r.hit) EXCEPT !.pch_iupac_name = r.hit.names,
                                      !.pch_cids_by_inchikey = CidList(1)]

\* Mutant of OsraChsByInchikey: the hit's identifiers are assigned, as in
\* ChemSpot.process.
OsraChsByInchikeyAssigning(e, r) ==
    IF r.out \in {"fail", "none"} THEN e
    ELSE IF r.out = "many" THEN [e EXCEPT !.chs_cids_by_inchikey = CidList(2)]
    ELSE [UpdateIds(e, r.hit).ent EXCEPT !.chs_common_name = r.hit.names,
                                        !.chs_cids_by_inchikey = CidList(1)]

\* The ChemSpider InChIKey search, for a call that returned.
OsraChsByInchikey(e, r) ==
    IF r.out \in {"fail", "none"} THEN e
    ELSE IF r.out = "many" THEN [e EXCEPT !.chs_cids_by_inchikey = CidList(2)]
    ELSE [e EXCEPT !.chs_common_name = r.hit.names,
                   !.chs_cids_by_inchikey = CidList(1)]

OsraAnnotateInit ==
    /\ mode = "osra" /\ pc = "annotate"
    /\ ent' = OsraEmptyColumns(ent)
    /\ pc' = IF PreferInchikey(ent) THEN "ik_pch" ELSE "sf_pch"
    /\ sf' = 1
    /\ pass' = 1
    /\ log' = << >>
    /\ last' = NoLast
    /\ key0' = ent.inchikey
    /\ writer' = ""
    /\ UNCHANGED <<mode, n, i, found_in_pch, found_in_chs, results_pch,
                   results_chs, exc, annotated>>
    /\ UNCHANGED notAnnVars

OsraInchikeyPubChem ==
    /\ mode = "osra" /\ pc = "ik_pch"
    /\ \E r \in PchOutcomes :
         /\ ent' = OsraPchByInchikey(ent, r)
         /\ last' = Last("pch", "inchikey", r)
    /\ log' = Append(log, Call("pch", "inchikey"))
    /\ pc' = "ik_chs"
    /\ UNCHANGED <<mode, n, i, pass, sf, found_in_pch, found_in_chs,
                   results_pch, results_chs, exc, key0, writer, annotated>>
    /\ UNCHANGED notAnnVars

OsraInchikeyChemSpider ==
    /\ mode = "osra" /\ pc = "ik_chs"
    /\ \E r \in ChsOutcomes :
         /\ ent' = OsraChsByInchikey(ent, r)
         /\ exc' = IF r.out = "fail" THEN "ChemSpiPyError" ELSE ""
         /\ pc' = IF r.out = "fail" THEN "raised" ELSE "next"
         /\ annotated' = IF r.out = "fail" THEN annotated ELSE annotated + 1
         /\ last' = Last("chs", "inchikey", r)
    /\ log' = Append(log, Call("chs", "inchikey"))
    /\ UNCHANGED <<mode, n, i, pass, sf, found_in_pch, found_in_chs,
                   results_pch, results_chs, key0, writer>>
    /\ UNCHANGED notAnnVars

OsraFieldPubChem ==
    /\ mode = "osra" /\ pc = "sf_pch"
    /\ LET f == OsraFieldSearched(ent, OsraSearchFields[sf].field) IN
       IF f # ""
       THEN /\ \E r \in CountOutcomes :
                 /\ results_pch' = NumResults(r)
                 /\ last' = Last("pch", f, r)
            /\ log' = Append(log, Call("pch", f))
       ELSE /\ results_pch' = 0
            /\ last' = NoLast
            /\ UNCHANGED <<log>>
    /\ results_chs' = 0
    /\ pc' = "sf_chs"
    /\ UNCHANGED <<mode, n, i, ent, pass, sf, found_in_pch, found_in_chs,
                   exc, key0, writer, annotated>>
    /\ UNCHANGED notAnnVars

OsraFieldChemSpider ==
    /\ mode = "osra" /\ pc = "sf_chs"
    /\ LET f == OsraFieldSearched(ent, OsraSearchFields[sf].field) IN
       IF f # ""
       THEN /\ \E r \in CountOutcomes :
                 /\ results_chs' = NumResults(r)
                 /\ exc' = IF r.out = "fail" THEN "ChemSpiPyError" ELSE ""
                 /\ pc' = IF r.out = "fail" THEN "raised" ELSE "sf_write"
                 /\ last' = Last("chs", f, r)
            /\ log' = Append(log, Call("chs", f))
       ELSE /\ pc' = "sf_write"
            /\ last' = NoLast
            /\ UNCHANGED <<results_chs, exc, log>>
    /\ UNCHANGED <<mode, n, i, ent, pass, sf, found_in_pch, found_in_chs,
                   results_pch, key0, writer, annotated>>
    /\ UNCHANGED notAnnVars

OsraFieldWrite ==
    /\ mode = "osra" /\ pc = "sf_write"
    /\ ent' = WriteColumns(ent, OsraSearchFields[sf], results_pch, results_chs)
    /\ log' = Append(log, Sleep("0.5"))
    /\ IF sf < Len(OsraSearchFields)
       THEN sf' = sf + 1 /\ pc' = "sf_pch" /\ annotated' = annotated
       ELSE sf' = sf /\ pc' = "next" /\ annotated' = annotated + 1
    /\ last' = NoLast
    /\ UNCHANGED <<mode, n, i, pass, found_in_pch, found_in_chs, results_pch,
                   results_chs, exc, key0, writer>>
    /\ UNCHANGED notAnnVars

\* ------------------------------------------------------------ SpecAnnot

\* The annotation loop not running.
IdleAnnot(m, k) ==
    /\ mode = m
    /\ n = k
    /\ i = 0
    /\ ent = NoEnt
    /\ pass = 1
    /\ pc = "next"
    /\ sf = 1
    /\ found_in_pch = FALSE
    /\ found_in_chs = FALSE
    /\ results_pch = 0
    /\ results_chs = 0
    /\ exc = ""
    /\ log = << >>
    /\ last = NoLast
    /\ key0 = Absent
    /\ writer = ""
    /\ annotated = 0

\* A file: whether it was opened for writing, its header row (<< >> when it
\* has none) and the number of its data rows.
NoFile == [written |-> FALSE, header |-> << >>, rows |-> 0]

NoCall ==
    [ entry |-> "", input_type |-> "", use_gm |-> TRUE, npages |-> 0,
      output_file |-> FALSE, write_header |-> FALSE,
      remove_duplicates |-> FALSE, opsin_types |-> {} ]

NoOcsr == [none |-> FALSE, content |-> << >>]

\* No entry point of the pipeline running.
IdlePipe ==
    /\ cfg = NoCall
    /\ osra_in = << >>
    /\ chs_in = << >>
    /\ ocsr = NoOcsr
    /\ ner = << >>
    /\ to_convert = << >>
    /\ opsin_converted = << >>
    /\ cidx = 1
    /\ results = << >>
    /\ file = NoFile
    /\ xerr = ""
    /\ xpc = "idle"

\* A regular expression that did not match, and the keys not yet set.
NoMatch == [matched |-> FALSE, ion |-> << >>, charge |-> << >>]
NoGroup == [kind |-> "none", text |-> << >>]
NoIds == [smiles |-> << Absent >>, inchi |-> << Absent >>, inchikey |-> << Absent >>]

\* No method being entered.
IdleEntry ==
    /\ call_args = [method |-> ""]
    /\ chemspot_rows = << >>
    /\ subprocess_calls = 0
    /\ retval = ""
    /\ has_to_convert = FALSE
    /\ epos = 1
    /\ eerr = ""
    /\ epc = "idle"

\* No call whose columns are followed.
IdleSchema ==
    /\ flags = [api |-> "", annotate |-> FALSE, convert_ions |-> FALSE,
                opsin_types |-> FALSE]
    /\ detected = << >>
    /\ structures = << >>
    /\ ner_content = << >>
    /\ ocsr_content = << >>
    /\ merged = << >>
    /\ spos = 1
    /\ serr = ""
    /\ spc = "idle"

\* No backend output being converted.
IdleConv ==
    /\ backend = ""
    /\ proc = [lines |-> 0, exit_code |-> 0, out_of_memory |-> FALSE]
    /\ outputs = << >>
    /\ item = 1
    /\ compounds = << >>
    /\ opsin_e = 0
    /\ cerr = ""
    /\ cpc = "idle"

\* No ion being converted.
IdleIon ==
    /\ ion_entity = << >>
    /\ match_ion = NoMatch
    /\ match_charge = NoGroup
    /\ smiles = << >>
    /\ ion_ids = NoIds
    /\ ipc = "idle"

\* No page being assigned.
IdlePage ==
    /\ input_pages = << >>
    /\ start = << 0 >>
    /\ page_ends = << >>
    /\ page = [str |-> FALSE, num |-> 1]
    /\ gpc = "idle"

IdleParse ==
    /\ pin = << >>
    /\ rows = << >>
    /\ ridx = 1
    /\ rows_new = << >>
    /\ perr = ""
    /\ ppc = "idle"

InitAnnot ==
    /\ \E m \in {"chemspot", "osra"}, k \in 1..MaxEnts : IdleAnnot(m, k)
    /\ IdleSchema
    /\ IdleEntry
    /\ IdleParse
    /\ IdlePipe
    /\ IdlePage
    /\ IdleIon
    /\ IdleConv

NextAnnot ==
    \/ NextEntity
    \/ AnnotateInit
    \/ PassStart
    \/ InchikeyPubChem
    \/ InchikeyChemSpider
    \/ NamePubChem
    \/ NameChemSpider
    \/ FieldPubChem
    \/ FieldChemSpider
    \/ FieldWrite
    \/ EndPass
    \/ OsraAnnotateInit
    \/ OsraInchikeyPubChem
    \/ OsraInchikeyChemSpider
    \/ OsraFieldPubChem
    \/ OsraFieldChemSpider
    \/ OsraFieldWrite

SpecAnnot == InitAnnot /\ [][NextAnnot]_vars

\* ------------------------------------------------------ claims: SpecAnnot

IdFields == {"smiles", "inchi", "inchikey"}

\* The database calls logged for the entity being annotated.
CallsMade == { k \in 1..Len(log) : log[k].ev = "call" }

\* C1: for an entity whose inchikey is non-empty when its annotation starts,
\* every database call made for it, in ChemSpot.process and in OSRA.process,
\* in any pass, is a search by InChIKey.
C1_InchikeyOnly ==
    Truthy(key0) => \A k \in CallsMade : log[k].kind = "inchikey"

\* C1 witness: such an entity of ChemSpot.process has been annotated to the
\* end, both databases were asked, and a hit replaced its inchikey.
C1_Witness ==
    /\ mode = "chemspot" /\ pc = "next" /\ Truthy(key0)
    /\ ent.inchikey # key0
    /\ \E k \in CallsMade : log[k].db = "pch"
    /\ \E k \in CallsMade : log[k].db = "chs"

\* C2: within one pass of ChemSpot.process, once a unique hit of one database
\* has written the identifiers, a unique hit returned later in that pass by
\* the other database leaves smiles, inchi and inchikey as they are.
C2_NoOverwriteByOtherDb ==
    [][ ( /\ mode = "chemspot" /\ i' = i /\ pass' = pass
          /\ writer \in {"pch", "chs"}
          /\ last'.out = "one" /\ last'.db \notin {"", writer}
          /\ last'.kind \in {"inchikey", "name"} )
        => \A f \in IdFields : ent'[f] = ent[f] ]_vars

\* C3: a database call that fails counts as zero hits: no exception leaves
\* process() because of it, and the batch is annotated to its end.
C3_FailureIsZeroHits ==
    /\ last.out = "fail" => (exc = "" /\ pc # "raised")
    /\ pc = "done" => annotated = n

\* C4: an entity gets at most two passes; the second is run exactly when a
\* database is marked found at the end of the first, and after the last pass
\* the loop moves on to the next entity.
C4_AtMostTwoPasses ==
    /\ [](pass \in {1, 2})
    /\ [][ (pc = "end_pass" /\ pass = 1)
           => IF found_in_pch \/ found_in_chs
              THEN pc' = "pass_start" /\ pass' = 2 /\ i' = i
              ELSE pc' = "next" /\ pass' = 1 ]_vars
    /\ [][ (pc = "end_pass" /\ pass = 2) => pc' = "next" ]_vars
    /\ [][ (pass' = 2 /\ pass # 2) => pc = "end_pass" ]_vars
    /\ [][ (pc = "next" /\ i < n) => (i' = i + 1 /\ pc' = "annotate") ]_vars

\* C4 witness: the second pass of an entity has run to its end.
C4_Witness ==
    mode = "chemspot" /\ pc = "end_pass" /\ pass = 2

\* C5: no step of the annotation of an entity in ChemSpot.process empties a
\* populated smiles, inchi or inchikey.
C5_NoRegress ==
    [][ (mode = "chemspot" /\ i' = i)
        => \A f \in IdFields : Truthy(ent[f]) => Truthy(ent'[f]) ]_vars

\* C5 witness: a unique hit without SMILES has been applied to an entity that
\* had one: its inchi was taken from the hit, its smiles kept.
C5_Witness ==
    /\ mode = "chemspot" /\ pc # "raised"
    /\ last.out = "one" /\ last.hit.smiles = "" /\ Truthy(last.hit.inchi)
    /\ writer = last.db
    /\ ent.inchi = last.hit.inchi /\ ent.smiles = "o"

\* The external calls of the log of the entity, in order.
Calls == SelectSeq(log, LAMBDA x : x.ev = "call")

\* The log belongs to the entity in ent.
LogOfEnt == pc # "annotate"

\* C24: in ChemSpot.process no search by formula is made for an entity
\* whose type is not FORMULA, and its pch_cids_by_formula stays empty.
C24_FormulaOnlyForFormulas ==
    (mode = "chemspot" /\ LogOfEnt /\ ent.type # "FORMULA")
    => /\ ent.pch_cids_by_formula \in {Absent, ""}
       /\ \A k \in 1..Len(Calls) : Calls[k].kind # "formula"

\* The flag of a database before the step.
FoundIn(db) == IF db = "pch" THEN found_in_pch ELSE found_in_chs

\* The step makes a call: the call it appends to the log.
Calling == Len(log') = Len(log) + 1 /\ log'[Len(log')].ev = "call"

\* What the name branch can search by at the step, "" for nothing: the name,
\* or the field of the search_field iteration when the entity has it; and
\* the database whose turn it is.
NameBranchKind ==
    CASE pc \in {"nm_pch", "nm_chs"} -> "name"
      [] pc = "sf_pch" -> FieldSearched(ent, SearchFields[sf].field)
      [] pc = "sf_chs" ->
           IF ChsSearchable(FieldSearched(ent, SearchFields[sf].field))
           THEN FieldSearched(ent, SearchFields[sf].field) ELSE ""
      [] OTHER -> ""

NameBranchDb == IF pc \in {"nm_pch", "sf_pch"} THEN "pch" ELSE "chs"

\* C25: in the name branch of ChemSpot.process a database is searched at a
\* step if and only if it has not yet given a unique hit by name for the
\* entity, and each database and identifier is searched at most once in a
\* pass.
C25_SearchIffNotFound ==
    [][ (mode = "chemspot" /\ NameBranchKind # "")
        => /\ Calling <=> ~FoundIn(NameBranchDb)
           /\ Calling
              => /\ log'[Len(log')] = Call(NameBranchDb, NameBranchKind)
                 /\ \A k \in 1..Len(log) : log[k] # log'[Len(log')] ]_vars

C25_Witness ==
    /\ mode = "chemspot" /\ pass = 2 /\ pc = "end_pass"
    /\ found_in_pch /\ ~found_in_chs
    /\ \E k \in 1..Len(Calls) : Calls[k] = Call("chs", "name")
    /\ \A k \in 1..Len(Calls) : ~(Calls[k].db = "pch" /\ Calls[k].pass = 2)

\* C28: while an entity is annotated in ChemSpot.process there is a delay
\* between any two consecutive calls of the databases.
C28_DelayBetweenCalls ==
    mode = "chemspot"
    => \A k \in 1..(Len(log) - 1) :
         ~(log[k].ev = "call" /\ log[k + 1].ev = "call")

TAB == "\t"
NL == "\n"
SP == " "

IsSpace(c) == c \in {TAB, NL, SP}

RECURSIVE LStrip(_)
LStrip(str) ==
    IF str # << >> /\ IsSpace(Head(str)) THEN LStrip(Tail(str)) ELSE str

RECURSIVE RStrip(_)
RStrip(str) ==
    IF str # << >> /\ IsSpace(str[Len(str)])
    THEN RStrip(SubSeq(str, 1, Len(str) - 1))
    ELSE str

\* str.strip()
Strip(str) == LStrip(RStrip(str))

\* str.split(sep): at least one piece, empty pieces kept.
RECURSIVE Split(_, _)
Split(str, sep) ==
    IF \A k \in 1..Len(str) : str[k] # sep THEN << str >>
    ELSE LET k == CHOOSE j \in 1..Len(str) :
                      str[j] = sep /\ \A h \in 1..(j - 1) : str[h] # sep
         IN  << SubSeq(str, 1, k - 1) >> \o Split(SubSeq(str, k + 1, Len(str)), sep)

\* sep.join(parts)
RECURSIVE Join(_, _)
Join(parts, sep) ==
    IF parts = << >> THEN << >>
    ELSE IF Len(parts) = 1 THEN parts[1]
    ELSE parts[1] \o << sep >> \o Join(Tail(parts), sep)

\* [x for x in xs if x]
RECURSIVE NonEmpty(_)
NonEmpty(xs) ==
    IF xs = << >> THEN << >>
    ELSE IF Head(xs) = << >> THEN NonEmpty(Tail(xs))
    ELSE << Head(xs) >> \o NonEmpty(Tail(xs))

\* rows = [row.strip().split("\t") for row in text.strip().split("\n") if row]
SplitRows(text) ==
    LET physical == NonEmpty(Split(Strip(text), NL))
    IN  [k \in 1..Len(physical) |-> Split(Strip(physical[k]), TAB)]

\* The text ChemSpot wrote: every line its fields joined by tabs, and a line
\* break after every line.
RawText(lines) ==
    Join([k \in 1..Len(lines) |-> Join(lines[k], TAB)], NL) \o << NL >>

\* Mutant of ParsedRow: the entity and the type change places.
ParsedRowSwapped(row, abbreviation, entity, type) ==
    [ start |-> row[1], end |-> row[2], page |-> 1,
      abbreviation |-> abbreviation, entity |-> type, type |-> entity ]

ParsedRow(row, abbreviation, entity, type) ==
    [ start |-> row[1], end |-> row[2], page |-> 1,
      abbreviation |-> abbreviation, entity |-> entity, type |-> type ]

\* One iteration of the loop over rows_enumerator, for the row at position k:
\* the entity appended, the exception raised, the position after it.
ParseRow(rs, k) ==
    LET row == rs[k]
        none == [ent |-> << >>, err |-> "", next |-> k]
    IN  IF Len(row) < 4 THEN [none EXCEPT !.err = "IndexError"]
        ELSE LET abbreviation ==
                     IF row[4] = << "ABBREVIATION" >> THEN row[3] ELSE << >>
             IN  IF Len(row) = 4
                 THEN [ent |-> << ParsedRow(row, abbreviation, row[3], row[4]) >>,
                       err |-> "", next |-> k + 1]
                 ELSE IF Len(row) = 5
                 THEN [ent |-> << ParsedRow(row, abbreviation, row[5], row[4]) >>,
                       err |-> "", next |-> k + 1]
                 ELSE IF k + 1 > Len(rs)
                 THEN [none EXCEPT !.err = "StopIteration"]
                 ELSE IF Len(rs[k + 1]) < 2
                 THEN [none EXCEPT !.err = "IndexError"]
                 ELSE [ent |-> << ParsedRow(row, abbreviation,
                                            row[3] \o << SP >> \o rs[k + 1][1],
                                            rs[k + 1][2]) >>,
                       err |-> "", next |-> k + 2]

\* The building of rows.
ParseSplit ==
    /\ ppc = "split"
    /\ rows' = SplitRows(RawText(pin))
    /\ ridx' = 1
    /\ rows_new' = << >>
    /\ ppc' = "loop"
    /\ UNCHANGED <<pin, perr>>
    /\ UNCHANGED notParseVars

\* for i, row in rows_enumerator
ParseNext ==
    /\ ppc = "loop"
    /\ IF ridx > Len(rows)
       THEN /\ ppc' = "returned"
            /\ UNCHANGED <<ridx, rows_new, perr>>
       ELSE LET res == ParseRow(rows, ridx) IN
            /\ rows_new' = rows_new \o res.ent
            /\ perr' = res.err
            /\ ridx' = res.next
            /\ ppc' = IF res.err # "" THEN "raised" ELSE "loop"
    /\ UNCHANGED <<pin, rows>>
    /\ UNCHANGED notParseVars

\* ------------------------------------------------------------- SpecParse

\* The lines ChemSpot writes, by their fields: two rows of four fields, an
\* abbreviation row of five, a row of six, and a row that a line break inside
\* the entity text split into a line of three fields and its continuation.
RowTrivial == << <<"10">>, <<"15">>, <<"water">>, <<"TRIVIAL">> >>
RowAbbreviation == << <<"20">>, <<"24">>, <<"EDTA">>, <<"ABBREVIATION">> >>
RowFive ==
    << <<"30">>, <<"34">>, <<"EDTA">>, <<"ABBREVIATION">>, <<"edetic", SP, "acid">> >>
RowSix ==
    << <<"40">>, <<"44">>, <<"a">>, <<"b">>, <<"c">>, <<"d">> >>
RowSpaced == << <<"60">>, <<"71">>, <<"acetic", SP, "acid">>, <<"SYSTEMATIC">> >>
RowEmpty == << << >> >>
RowSplitHead == << <<"50">>, <<"91">>, <<"propanesulfonic", SP>> >>
RowSplitRest == << <<"acid">>, <<"SYSTEMATIC">> >>

ChemSpotLines ==
    { RowTrivial, RowAbbreviation, RowSpaced, RowEmpty, RowFive, RowSix,
      RowSplitHead, RowSplitRest }

ChemSpotOutputs ==
    UNION { [1..k -> ChemSpotLines] : k \in 0..MaxLines }

InitParse ==
    /\ IdleSchema
    /\ IdleAnnot("", 0)
    /\ IdleEntry
    /\ IdlePipe
    /\ IdlePage
    /\ IdleIon
    /\ IdleConv
    /\ pin \in ChemSpotOutputs
    /\ rows = << >>
    /\ ridx = 1
    /\ rows_new = << >>
    /\ perr = ""
    /\ ppc = "split"

NextParse ==
    \/ ParseSplit
    \/ ParseNext

SpecParse == InitParse /\ [][NextParse]_vars

\* ------------------------------------------------------ claims: SpecParse

ParseEnded == ppc \in {"returned", "raised"}

\* The entity of a well-formed row of four fields.
RowEntity(line) ==
    [ start |-> line[1], end |-> line[2], page |-> 1,
      abbreviation |-> IF line[4] = << "ABBREVIATION" >> THEN line[3] ELSE << >>,
      entity |-> line[3], type |-> line[4] ]

\* The one entity of a split row: the two fragments of the text joined by a
\* single space, the type of the continuation line.
HealedEntity(head, rest) ==
    [ start |-> head[1], end |-> head[2], page |-> 1, abbreviation |-> << >>,
      entity |-> Strip(head[3]) \o << SP >> \o rest[1], type |-> rest[2] ]

FourFields == { RowTrivial, RowAbbreviation, RowSpaced }

\* The output is a split row, well-formed rows of four fields after it.
SplitRowFirst ==
    /\ Len(pin) >= 2
    /\ pin[1] = RowSplitHead /\ pin[2] = RowSplitRest
    /\ \A k \in 3..Len(pin) : pin[k] \in FourFields

\* C10: a line of three fields followed by its continuation line yields one
\* entity, the two fragments joined by a single space and the type of the
\* continuation; parsing does not raise and the rows after it are parsed.
C10_SplitRowHealed ==
    (ParseEnded /\ SplitRowFirst)
    => /\ perr = ""
       /\ rows_new = << HealedEntity(pin[1], pin[2]) >>
                     \o [k \in 1..(Len(pin) - 2) |-> RowEntity(pin[k + 2])]

\* The non-empty physical lines of the output.
WrittenLines == SelectSeq(pin, LAMBDA line : line # RowEmpty)

AllFourFields == \A k \in 1..Len(WrittenLines) : WrittenLines[k] \in FourFields

\* C11: when every non-empty physical line has exactly four fields,
\* parse_chemspot returns one entity per line, in the order of the lines, with
\* start, end, entity and type the four fields of the line; an empty output
\* gives the empty list.
C11_OneEntityPerRow ==
    (ParseEnded /\ AllFourFields)
    => /\ perr = ""
       /\ rows_new = [k \in 1..Len(WrittenLines) |-> RowEntity(WrittenLines[k])]

\* Three rows of four fields, the abbreviation row among them.
C11_Witness ==
    /\ ppc = "returned"
    /\ pin = << RowSpaced, RowAbbreviation, RowTrivial >>
    /\ Len(rows_new) = 3
    /\ rows_new[1].entity = << "acetic", SP, "acid" >>
    /\ rows_new[2].abbreviation = << "EDTA" >>

\* The empty output.
C11_WitnessEmpty == ppc = "returned" /\ pin = << >> /\ rows_new = << >>

\* ------------------------------------------------------- pages, csv files

\* A page number held as an int, and as the str OSRA prints.
IntPage(k) == [str |-> FALSE, num |-> k]
StrPage(k) == [str |-> TRUE, num |-> k]

\* str(k) for a natural number: its decimal digits.
RECURSIVE Digits(_)
Digits(k) == IF k < 10 THEN << k >> ELSE Digits(k \div 10) \o << k % 10 >>

\* Python's a < b on two str of digits.
RECURSIVE StrLess(_, _)
StrLess(a, b) ==
    IF a = << >> THEN b # << >>
    ELSE IF b = << >> THEN FALSE
    ELSE IF a[1] # b[1] THEN a[1] < b[1]
    ELSE StrLess(Tail(a), Tail(b))

\* Python's p < q on two page values of the same type.
PageLess(p, q) ==
    IF p.str THEN StrLess(Digits(p.num), Digits(q.num)) ELSE p.num < q.num

\* sorted(compounds, key=lambda x: x["page"]): a stable sort.
RECURSIVE InsertByPage(_, _)
InsertByPage(sorted, c) ==
    IF sorted = << >> THEN << c >>
    ELSE IF PageLess(c.page, Head(sorted).page) THEN << c >> \o sorted
    ELSE << Head(sorted) >> \o InsertByPage(Tail(sorted), c)

RECURSIVE SortedByPage(_)
SortedByPage(cs) ==
    IF cs = << >> THEN << >>
    ELSE InsertByPage(SortedByPage(SubSeq(cs, 1, Len(cs) - 1)), cs[Len(cs)])

WriteEmptyFile(header, write_header) ==
    [ written |-> TRUE,
      header |-> IF header # << >> /\ write_header THEN header ELSE << >>,
      rows |-> 0 ]

\* dict_to_csv with an output file; keys is dicts[0].keys().
DictToCsv(dicts, keys, write_header) ==
    IF dicts = << >> THEN WriteEmptyFile(<< >>, FALSE)
    ELSE [ written |-> TRUE,
           header |-> IF write_header THEN keys ELSE << >>,
           rows |-> Len(dicts) ]

\* --------------------------------------------------------- OSRA.process

OsraKeys ==
    << "smiles", "inchi", "inchikey",
       "bond_length", "resolution", "confidence", "page", "coordinates" >>

\* osra_output_list: one _process result per run. OSRA prints one line per
\* structure, with the page of the structure in the file it was given: the
\* page of the document for a PDF, 1 for the image of a single page.
OsraOutputList(a, structs, npages) ==
    IF a.input_type = "image" \/ ~a.use_gm
    THEN << [ page |-> IF a.custom_page # 0 THEN a.custom_page ELSE 1,
              stdout |-> IF a.input_type = "image"
                         THEN [k \in 1..Len(structs) |-> 1]
                         ELSE structs ] >>
    ELSE [ p \in 1..npages |->
             [ page |-> p,
               stdout |-> [k \in 1..Len(SelectSeq(structs, LAMBDA x : x = p))
                             |-> 1] ] ]

\* The summary keeps the runs that printed something.
OsraSummary(list) == SelectSeq(list, LAMBDA r : r.stdout # << >>)

\* The compounds of one run, in the order of its lines.
OsraCompounds(a, run) ==
    [ k \in 1..Len(run.stdout) |->
        [ smiles |-> "smiles:osra",
          page |-> IF a.osra_output_format = "smi"
                   THEN IF a.custom_page # 0 THEN IntPage(a.custom_page)
                        ELSE IF a.use_gm THEN IntPage(run.page)
                        ELSE StrPage(run.stdout[k])
                   ELSE IF a.use_gm THEN IntPage(run.page)
                        ELSE IF a.custom_page # 0 THEN IntPage(a.custom_page)
                        ELSE IntPage(1) ] ]

RECURSIVE OsraAllCompounds(_, _)
OsraAllCompounds(a, summary) ==
    IF summary = << >> THEN << >>
    ELSE OsraCompounds(a, Head(summary)) \o OsraAllCompounds(a, Tail(summary))

\* OSRA.process with format_output: what it returns and the file it leaves.
\* content is None when no run printed anything.
OsraProcess(a, structs, npages) ==
    LET summary == OsraSummary(OsraOutputList(a, structs, npages))
        content == SortedByPage(OsraAllCompounds(a, summary))
    IN  IF summary # << >>
        THEN [ stdout |-> summary, none |-> FALSE, content |-> content,
               file |-> IF a.output_file
                        THEN DictToCsv(content, OsraKeys, a.write_header)
                        ELSE NoFile ]
        ELSE [ stdout |-> summary, none |-> TRUE, content |-> << >>,
               file |-> IF a.output_file
                        THEN WriteEmptyFile(OsraKeys, a.write_header)
                        ELSE NoFile ]

\* ------------------------------------------- ChemSpot.process, OPSIN.process

\* Mutant of RemoveDuplicates: the last occurrence is kept, not the first.
RECURSIVE RemoveDuplicatesKeepLast(_)
RemoveDuplicatesKeepLast(content) ==
    IF content = << >> THEN << >>
    ELSE LET x == Head(content)
             rest == Tail(content)
         IN  IF \E k \in 1..Len(rest) : rest[k].entity = x.entity
             THEN RemoveDuplicatesKeepLast(rest)
             ELSE << x >> \o RemoveDuplicatesKeepLast(rest)

\* [x for x in content if not (x["entity"] in seen or seen_add(x["entity"]))]
RECURSIVE RemoveDuplicatesFrom(_, _)
RemoveDuplicatesFrom(content, seen) ==
    IF content = << >> THEN << >>
    ELSE LET x == Head(content)
         IN  IF x.entity \in seen
             THEN RemoveDuplicatesFrom(Tail(content), seen)
             ELSE << x >> \o RemoveDuplicatesFrom(Tail(content), seen \cup {x.entity})

RemoveDuplicates(content) == RemoveDuplicatesFrom(content, {})

\* to_convert = [x["entity"] for x in content if x["type"] in opsin_types]
ToConvert(content, opsin_types) ==
    LET chosen == SelectSeq(content, LAMBDA x : x.type \in opsin_types)
    IN  [k \in 1..Len(chosen) |-> chosen[k].entity]

\* The record OPSIN.process returns for one input line.
OpsinRecord(name) ==
    IF name = "a"
    THEN [ iupac |-> "a", smiles |-> "smiles:a", inchi |-> "inchi:a",
           inchikey |-> "inchikey:a", error |-> "" ]
    ELSE [ iupac |-> name, smiles |-> "smiles:b", inchi |-> "inchi:b",
           inchikey |-> "inchikey:b", error |-> "" ]

\* opsin.process(input=to_convert)["content"]: one record per line, in order.
OpsinContent(names) == [k \in 1..Len(names) |-> OpsinRecord(names[k])]

\* ent.update(smiles, inchi, inchikey, opsin_error) from a record of OPSIN
WithOpsin(e, r) ==
    [e EXCEPT !.smiles = r.smiles, !.inchi = r.inchi, !.inchikey = r.inchikey,
              !.opsin_error = r.error]

\* ent.update(smiles "", inchi "", inchikey "", opsin_error "")
WithoutOpsin(e) ==
    [e EXCEPT !.smiles = "", !.inchi = "", !.inchikey = "", !.opsin_error = ""]

ChemSpotKeys(e) ==
    << "start", "end", "page", "abbreviation", "entity", "type" >>
    \o (IF e.smiles = Absent THEN << >> ELSE << "smiles", "inchi", "inchikey" >>)
    \o (IF e.opsin_error = Absent THEN << >> ELSE << "opsin_error" >>)

ExtractorKeys ==
    << "source", "type", "page", "abbreviation", "entity",
       "smiles", "inchi", "inchikey", "opsin_error" >>

\* ------------------------------------------ ChemSpot.process on its own
\* The call has annotate and convert_ions off; the page of an entity is not
\* followed here.

\* if remove_duplicates and not iob_format
ChsRemoveDuplicates ==
    /\ xpc = "chs_dedup"
    /\ ner' = IF cfg.remove_duplicates THEN RemoveDuplicates(chs_in) ELSE chs_in
    /\ xpc' = "chs_convert"
    /\ UNCHANGED <<cfg, osra_in, chs_in, ocsr, to_convert, opsin_converted,
                   cidx, results, file, xerr>>
    /\ UNCHANGED notPipeVars

\* if opsin_types: to_convert, and the iterator over OPSIN's records
ChsToConvert ==
    /\ xpc = "chs_convert"
    /\ to_convert' = IF cfg.opsin_types # {}
                     THEN ToConvert(ner, cfg.opsin_types) ELSE << >>
    /\ opsin_converted' = OpsinContent(to_convert')
    /\ cidx' = 1
    /\ xpc' = "chs_loop"
    /\ UNCHANGED <<cfg, osra_in, chs_in, ocsr, ner, results, file, xerr>>
    /\ UNCHANGED notPipeVars

\* One iteration of for i, ent in enumerate(to_return["content"])
ChsAttach ==
    /\ xpc = "chs_loop"
    /\ cidx <= Len(ner)
    /\ LET e == ner[cidx] IN
       IF cfg.opsin_types # {} /\ to_convert # << >>
       THEN IF \E k \in 1..Len(to_convert) : to_convert[k] = e.entity
            THEN IF opsin_converted = << >>
                 THEN /\ xerr' = "StopIteration"
                      /\ xpc' = "raised"
                      /\ UNCHANGED <<ner, opsin_converted, cidx>>
                 ELSE /\ ner' = [ner EXCEPT ![cidx] = WithOpsin(e, Head(opsin_converted))]
                      /\ opsin_converted' = Tail(opsin_converted)
                      /\ cidx' = cidx + 1
                      /\ UNCHANGED <<xerr, xpc>>
            ELSE /\ ner' = [ner EXCEPT ![cidx] = WithoutOpsin(e)]
                 /\ cidx' = cidx + 1
                 /\ UNCHANGED <<opsin_converted, xerr, xpc>>
       ELSE /\ cidx' = cidx + 1
            /\ UNCHANGED <<ner, opsin_converted, xerr, xpc>>
    /\ UNCHANGED <<cfg, osra_in, chs_in, ocsr, to_convert, results, file>>
    /\ UNCHANGED notPipeVars

\* if output_file: dict_to_csv(to_return["content"], ...); return to_return
ChsWrite ==
    /\ xpc = "chs_loop"
    /\ cidx > Len(ner)
    /\ file' = IF cfg.output_file
               THEN DictToCsv(ner, IF ner = << >> THEN << >> ELSE ChemSpotKeys(ner[1]),
                              cfg.write_header)
               ELSE file
    /\ results' = ner
    /\ xpc' = "returned"
    /\ UNCHANGED <<cfg, osra_in, chs_in, ocsr, ner, to_convert, opsin_converted,
                   cidx, xerr>>
    /\ UNCHANGED notPipeVars

\* --------------------------------------------- OSRA.process on its own

OsraArgs(c) ==
    [ input_type |-> c.input_type, use_gm |-> c.use_gm, custom_page |-> 0,
      osra_output_format |-> "smi", output_file |-> c.output_file,
      write_header |-> c.write_header ]

OsraAlone ==
    /\ xpc = "osra"
    /\ LET x == OsraProcess(OsraArgs(cfg), osra_in, cfg.npages) IN
       /\ ocsr' = [none |-> x.none, content |-> x.content]
       /\ results' = x.content
       /\ file' = x.file
    /\ xpc' = "returned"
    /\ UNCHANGED <<cfg, osra_in, chs_in, ner, to_convert, opsin_converted,
                   cidx, xerr>>
    /\ UNCHANGED notPipeVars

\* ------------------------------------------------------ Extractor.process
\* The call has separated_output and annotate off.

\* input_type other than "pdf_scan": one call of osra.process, which gets
\* output_file_ocsr = "" as its output file.
ExtractOsra ==
    /\ xpc = "ext_osra"
    /\ cfg.input_type # "pdf_scan"
    /\ LET x == OsraProcess([OsraArgs(cfg) EXCEPT !.output_file = FALSE],
                            osra_in, cfg.npages) IN
       ocsr' = [none |-> x.none, content |-> x.content]
    /\ xpc' = "ext_chemspot"
    /\ UNCHANGED <<cfg, osra_in, chs_in, ner, to_convert, opsin_converted,
                   cidx, results, file, xerr>>
    /\ UNCHANGED notPipeVars

\* osra.process for the image of page p of a scanned PDF.
OsraScanPage(p) ==
    OsraProcess([ input_type |-> "image", use_gm |-> FALSE, custom_page |-> p,
                  osra_output_format |-> "sdf", output_file |-> FALSE,
                  write_header |-> TRUE ],
                SelectSeq(osra_in, LAMBDA x : x = p), 1)

\* for x, (_, page) in zip(ocsr_list, temp_image_files)
RECURSIVE OsraScanContent(_)
OsraScanContent(p) ==
    IF p > cfg.npages THEN << >>
    ELSE OsraScanPage(p).content \o OsraScanContent(p + 1)

\* input_type "pdf_scan": one call of osra.process per page image; x["stdout"]
\* is the empty list for a page on which OSRA printed nothing.
ExtractOsraScan ==
    /\ xpc = "ext_osra"
    /\ cfg.input_type = "pdf_scan"
    /\ IF \E p \in 1..cfg.npages : OsraScanPage(p).stdout = << >>
       THEN /\ xerr' = "IndexError"
            /\ xpc' = "raised"
            /\ ocsr' = ocsr
       ELSE /\ ocsr' = [none |-> FALSE, content |-> OsraScanContent(1)]
            /\ xpc' = "ext_chemspot"
            /\ xerr' = xerr
    /\ UNCHANGED <<cfg, osra_in, chs_in, ner, to_convert, opsin_converted,
                   cidx, results, file>>
    /\ UNCHANGED notPipeVars

\* ner = self.chemspot.process(..., opsin_types=[], output_file=""): with no
\* opsin_types the loop over the entities attaches nothing.
ExtractChemSpot ==
    /\ xpc = "ext_chemspot"
    /\ ner' = IF cfg.remove_duplicates THEN RemoveDuplicates(chs_in) ELSE chs_in
    /\ xpc' = "ext_convert"
    /\ UNCHANGED <<cfg, osra_in, chs_in, ocsr, to_convert, opsin_converted,
                   cidx, results, file, xerr>>
    /\ UNCHANGED notPipeVars

\* to_convert and opsin_converted
ExtractConvert ==
    /\ xpc = "ext_convert"
    /\ to_convert' = ToConvert(ner, cfg.opsin_types)
    /\ opsin_converted' = OpsinContent(to_convert')
    /\ xpc' = "ext_join_osra"
    /\ UNCHANGED <<cfg, osra_in, chs_in, ocsr, ner, cidx, results, file, xerr>>
    /\ UNCHANGED notPipeVars

OsraResult(c) ==
    [ source |-> "osra", type |-> "2d_structure", page |-> c.page, entity |-> "",
      smiles |-> c.smiles, inchi |-> "inchi:osra", inchikey |-> "inchikey:osra",
      opsin_error |-> "" ]

ChemSpotResult(e, r) ==
    [ source |-> "chemspot", type |-> e.type, page |-> e.page,
      entity |-> e.entity, smiles |-> r.smiles, inchi |-> r.inchi,
      inchikey |-> r.inchikey, opsin_error |-> r.error ]

NoOpsin == [smiles |-> "", inchi |-> "", inchikey |-> "", error |-> ""]

\* for ent in ocsr["content"]
ExtractJoinOsra ==
    /\ xpc = "ext_join_osra"
    /\ IF ocsr.none
       THEN /\ xerr' = "TypeError"
            /\ xpc' = "raised"
            /\ UNCHANGED <<results, cidx>>
       ELSE /\ results' = [k \in 1..Len(ocsr.content) |-> OsraResult(ocsr.content[k])]
            /\ cidx' = 1
            /\ xpc' = "ext_join_chemspot"
            /\ xerr' = xerr
    /\ UNCHANGED <<cfg, osra_in, chs_in, ocsr, ner, to_convert, opsin_converted,
                   file>>
    /\ UNCHANGED notPipeVars

\* One iteration of for ent in ner["content"]
ExtractJoinChemSpot ==
    /\ xpc = "ext_join_chemspot"
    /\ cidx <= Len(ner)
    /\ LET e == ner[cidx] IN
       IF e.type \in cfg.opsin_types
       THEN IF opsin_converted = << >>
            THEN /\ xerr' = "StopIteration"
                 /\ xpc' = "raised"
                 /\ UNCHANGED <<results, opsin_converted, cidx>>
            ELSE /\ results' = Append(results, ChemSpotResult(e, Head(opsin_converted)))
                 /\ opsin_converted' = Tail(opsin_converted)
                 /\ cidx' = cidx + 1
                 /\ UNCHANGED <<xerr, xpc>>
       ELSE /\ results' = Append(results, ChemSpotResult(e, NoOpsin))
            /\ cidx' = cidx + 1
            /\ UNCHANGED <<opsin_converted, xerr, xpc>>
    /\ UNCHANGED <<cfg, osra_in, chs_in, ocsr, ner, to_convert, file>>
    /\ UNCHANGED notPipeVars

\* if results: dict_to_csv ... elif not results and output_file: write_empty_file
ExtractWrite ==
    /\ xpc = "ext_join_chemspot"
    /\ cidx > Len(ner)
    /\ file' = IF results # << >>
               THEN IF cfg.output_file
                    THEN DictToCsv(results, ExtractorKeys, cfg.write_header)
                    ELSE file
               ELSE IF cfg.output_file
                    THEN WriteEmptyFile(ExtractorKeys, cfg.write_header)
                    ELSE file
    /\ xpc' = "returned"
    /\ UNCHANGED <<cfg, osra_in, chs_in, ocsr, ner, to_convert, opsin_converted,
                   cidx, results, xerr>>
    /\ UNCHANGED notPipeVars

\* -------------------------------------------------------------- SpecPipe

\* The lengths of the documents, and the types asked to be converted.
DocLengths == {1, 2, 10}
OpsinTypeChoices == { {}, {"SYSTEMATIC"} }

\* The structures of a document of npages pages, in the order of its pages.
Structs(npages) ==
    { s \in UNION { [1..k -> DocLengths \cap (1..npages)] : k \in 0..MaxStructs } :
        \A k \in 1..(Len(s) - 1) : s[k] <= s[k + 1] }

\* An entity as parse_chemspot returns it; the keys smiles, inchi, inchikey
\* and opsin_error are added later.
Detected(name, type) ==
    [ entity |-> name, type |-> type, page |-> IntPage(1), smiles |-> Absent,
      inchi |-> Absent, inchikey |-> Absent, opsin_error |-> Absent ]

DetectedEnts ==
    { Detected("a", "SYSTEMATIC"), Detected("a", "FAMILY"), Detected("b", "SYSTEMATIC") }

DetectedLists == UNION { [1..k -> DetectedEnts] : k \in 0..MaxDetected }

ChemSpotCalls ==
    { [ entry |-> "chemspot", input_type |-> "text", use_gm |-> TRUE,
        npages |-> 1, output_file |-> TRUE, write_header |-> w,
        remove_duplicates |-> r, opsin_types |-> o ] :
      w \in BOOLEAN, r \in BOOLEAN, o \in OpsinTypeChoices }

OsraCalls ==
    { [ entry |-> "osra", input_type |-> "pdf", use_gm |-> g, npages |-> d,
        output_file |-> TRUE, write_header |-> w,
        remove_duplicates |-> FALSE, opsin_types |-> {} ] :
      g \in BOOLEAN, d \in DocLengths, w \in BOOLEAN }

ExtractorCalls ==
    { [ entry |-> "extractor", input_type |-> t, use_gm |-> g, npages |-> d,
        output_file |-> TRUE, write_header |-> w,
        remove_duplicates |-> r, opsin_types |-> o ] :
      t \in {"pdf", "pdf_scan"}, g \in BOOLEAN, d \in DocLengths,
      w \in BOOLEAN, r \in BOOLEAN, o \in OpsinTypeChoices }

InitPipe ==
    /\ IdleSchema
    /\ IdleAnnot("", 0)
    /\ IdleEntry
    /\ IdleParse
    /\ IdlePage
    /\ IdleIon
    /\ IdleConv
    /\ cfg \in ChemSpotCalls \cup OsraCalls \cup ExtractorCalls
    /\ osra_in \in IF cfg.entry = "chemspot" THEN { << >> } ELSE Structs(cfg.npages)
    /\ chs_in \in IF cfg.entry = "osra" THEN { << >> } ELSE DetectedLists
    /\ ocsr = NoOcsr
    /\ ner = << >>
    /\ to_convert = << >>
    /\ opsin_converted = << >>
    /\ cidx = 1
    /\ results = << >>
    /\ file = NoFile
    /\ xerr = ""
    /\ xpc = IF cfg.entry = "chemspot" THEN "chs_dedup"
             ELSE IF cfg.entry = "osra" THEN "osra" ELSE "ext_osra"

NextPipe ==
    \/ ChsRemoveDuplicates
    \/ ChsToConvert
    \/ ChsAttach
    \/ ChsWrite
    \/ OsraAlone
    \/ ExtractOsra
    \/ ExtractOsraScan
    \/ ExtractChemSpot
    \/ ExtractConvert
    \/ ExtractJoinOsra
    \/ ExtractJoinChemSpot
    \/ ExtractWrite

SpecPipe == InitPipe /\ [][NextPipe]_vars

\* ------------------------------------------------------- claims: SpecPipe

PipeEnded == xpc \in {"returned", "raised"}

\* The text entities the entry point has dealt with so far, each by its
\* string, its type and the smiles it carries.
TextEntities ==
    { [entity |-> ner[k].entity, type |-> ner[k].type, smiles |-> ner[k].smiles] :
        k \in { j \in 1..Len(ner) : cfg.entry = "chemspot" /\ xpc = "returned" } }
    \cup
    { [entity |-> results[k].entity, type |-> results[k].type,
       smiles |-> results[k].smiles] :
        k \in { j \in 1..Len(results) :
                  cfg.entry = "extractor" /\ results[j].source = "chemspot" } }

\* An entity consumed an element of the conversion queue.
Converted(e) == Truthy(e.smiles)

\* C6: when the results of OPSIN are attached to the text entities, in
\* ChemSpot.process and in Extractor.process, the queue of conversions is
\* never read past its end, only the entities whose type is in opsin_types
\* take an element of it, and the element an entity takes is the conversion
\* of its own string.
C6_QueueAligned ==
    /\ xerr # "StopIteration"
    /\ \A e \in TextEntities :
         /\ Converted(e) => e.type \in cfg.opsin_types
         /\ e.type \in cfg.opsin_types => e.smiles = OpsinRecord(e.entity).smiles

NameAndType(es) == [k \in 1..Len(es) |-> << es[k].entity, es[k].type >>]

\* C7: in the list Extractor.process returns, every osra entity comes before
\* every chemspot entity, the osra entities are in non-decreasing numeric
\* order of their pages, and the chemspot entities are in the order in which
\* ChemSpot detected them.
C7_MergedOrder ==
    (cfg.entry = "extractor" /\ xpc = "returned")
    => /\ \A j, k \in 1..Len(results) :
            (j < k /\ results[j].source = "chemspot")
            => results[k].source = "chemspot"
       /\ \A j, k \in 1..Len(results) :
            (j < k /\ results[j].source = "osra" /\ results[k].source = "osra")
            => results[j].page.num <= results[k].page.num
       /\ NameAndType(SelectSeq(results, LAMBDA r : r.source = "chemspot"))
            = NameAndType(ner)

\* The positions of the first occurrences of the entity strings of content.
FirstOccurrences(content) ==
    { k \in 1..Len(content) :
        \A j \in 1..(k - 1) : content[j].entity # content[k].entity }

\* kept is content restricted to the first occurrences, in their order.
KeepsFirstOccurrences(content, kept) ==
    /\ Len(kept) = Cardinality(FirstOccurrences(content))
    /\ \E f \in [1..Len(kept) -> FirstOccurrences(content)] :
         /\ \A j, k \in 1..Len(kept) : j < k => f[j] < f[k]
         /\ \A k \in 1..Len(kept) : kept[k] = content[f[k]]

\* C8: with remove_duplicates, ChemSpot.process keeps exactly the first
\* occurrence of every entity string, in the order of the input, and the
\* filter changes nothing on a list it has already filtered.
C8_KeepsFirstOccurrence ==
    (cfg.remove_duplicates /\ xpc \in {"chs_convert", "ext_convert"})
    => /\ KeepsFirstOccurrences(chs_in, ner)
       /\ RemoveDuplicates(ner) = ner

\* A string detected twice with different types, and another string after it.
C8_Witness ==
    /\ cfg.entry = "chemspot" /\ cfg.remove_duplicates /\ xpc = "chs_convert"
    /\ Len(chs_in) = 3 /\ Len(ner) = 2
    /\ chs_in[1].entity = chs_in[2].entity /\ chs_in[1].type # chs_in[2].type
    /\ ner = << chs_in[1], chs_in[3] >>

\* C9: a document with no structure and no text entity, and an output file
\* configured: the entry point (Extractor.process, ChemSpot.process or
\* OSRA.process) returns and leaves the output file written, holding the
\* header row alone with write_header and nothing without it.
C9_EmptyResultFile ==
    (PipeEnded /\ osra_in = << >> /\ chs_in = << >> /\ cfg.output_file)
    => /\ xerr = ""
       /\ file.written
       /\ file.rows = 0
       /\ (file.header # << >>) = cfg.write_header

\* The recognition runs once per page image: OSRA.process on a PDF with
\* use_gm, Extractor.process on a scanned PDF.
PerPageRecognition ==
    \/ cfg.entry = "osra" /\ cfg.input_type = "pdf" /\ cfg.use_gm
    \/ cfg.entry = "extractor" /\ cfg.input_type = "pdf_scan"

\* The recognition stage is over.
RecognitionOver == xpc \notin {"osra", "ext_osra"}

\* C26: when the structures are recognized page by page, the collected
\* content is the list of the structures in the order of their pages, each
\* with the number of the page it was recognized on, also when some pages
\* give no output.
C26_PerPageContent ==
    (PerPageRecognition /\ RecognitionOver /\ osra_in # << >>)
    => /\ ~ocsr.none
       /\ Len(ocsr.content) = Len(osra_in)
       /\ \A k \in 1..Len(osra_in) :
            ocsr.content[k].page = IntPage(osra_in[k])

\* C29: a page, or a whole input, on which OSRA recognizes nothing is a
\* normal outcome of Extractor.process: it does not raise, and it returns
\* the structures of the other pages and all the text entities.
C29_NothingRecognizedIsNormal ==
    (cfg.entry = "extractor" /\ PipeEnded
       /\ \E p \in 1..cfg.npages : \A k \in 1..Len(osra_in) : osra_in[k] # p)
    => /\ xerr = ""
       /\ Len(SelectSeq(results, LAMBDA r : r.source = "osra")) = Len(osra_in)
       /\ Len(SelectSeq(results, LAMBDA r : r.source = "chemspot")) = Len(ner)

\* ------------------------------------- ChemSpot.process: page of an entity

\* int(s) for a str of digits.
RECURSIVE IntOf(_)
IntOf(ds) ==
    IF ds = << >> THEN 0 ELSE 10 * IntOf(SubSeq(ds, 1, Len(ds) - 1)) + ds[Len(ds)]

\* The loop over input_text.split("\f"): a page that is not blank adds the
\* boundary page_ends[-1] + len(page) - 1, the first one len(page) - 1.
RECURSIVE PageEndsFrom(_, _)
PageEndsFrom(pages, ends) ==
    IF pages = << >> THEN ends
    ELSE LET pg == Head(pages)
         IN  IF pg.blank THEN PageEndsFrom(Tail(pages), ends)
             ELSE IF ends = << >>
                  THEN PageEndsFrom(Tail(pages), << pg.len - 1 >>)
                  ELSE PageEndsFrom(Tail(pages),
                                    Append(ends, ends[Len(ends)] + pg.len - 1))

PageEnds(pages) == PageEndsFrom(pages, << >>)

\* Mutant of BisectLeftFrom: the search of bisect.bisect_right.
RECURSIVE BisectRightFrom(_, _, _, _)
BisectRightFrom(a, x, lo, hi) ==
    IF lo >= hi THEN lo
    ELSE LET mid == (lo + hi) \div 2
         IN  IF x < a[mid + 1] THEN BisectRightFrom(a, x, lo, mid)
             ELSE BisectRightFrom(a, x, mid + 1, hi)

\* bisect.bisect_left(a, x, lo, hi); a[mid + 1] is Python's a[mid].
RECURSIVE BisectLeftFrom(_, _, _, _)
BisectLeftFrom(a, x, lo, hi) ==
    IF lo >= hi THEN lo
    ELSE LET mid == (lo + hi) \div 2
         IN  IF a[mid + 1] < x THEN BisectLeftFrom(a, x, mid + 1, hi)
             ELSE BisectLeftFrom(a, x, lo, mid)

BisectLeft(a, x) == BisectLeftFrom(a, x, 0, Len(a))

\* if input_type in ["pdf", "pdf_scan"] or paged_text: page_ends
ComputePageEnds ==
    /\ gpc = "page_ends"
    /\ page_ends' = PageEnds(input_pages)
    /\ gpc' = "loop"
    /\ UNCHANGED <<input_pages, start, page>>
    /\ UNCHANGED notPageVars

\* ent["page"] = str(bisect.bisect_left(page_ends, int(ent["start"])) + 1)
AssignPage ==
    /\ gpc = "loop"
    /\ page' = StrPage(BisectLeft(page_ends, IntOf(start)) + 1)
    /\ gpc' = "assigned"
    /\ UNCHANGED <<input_pages, start, page_ends>>
    /\ UNCHANGED notPageVars

\* -------------------------------------------------------------- SpecPage

\* A page of the text: its length, and whether it holds white space only.
TextPages ==
    { [len |-> l, blank |-> b] : l \in 0..MaxPageLen, b \in BOOLEAN } \
    { [len |-> 0, blank |-> FALSE] }

PagedTexts == UNION { [1..k -> TextPages] : k \in 1..MaxPages }

\* The offset of the first character of page k in "\f".join(pages).
RECURSIVE PageOffset(_, _)
PageOffset(pages, k) ==
    IF k = 1 THEN 0 ELSE PageOffset(pages, k - 1) + pages[k - 1].len + 1

\* The offsets at which an entity can start: those of the pages with text.
EntityOffsets(pages) ==
    UNION { { PageOffset(pages, k) + d : d \in 0..(pages[k].len - 1) } :
            k \in { j \in 1..Len(pages) : ~pages[j].blank } }

InitPage ==
    /\ IdleSchema
    /\ IdleAnnot("", 0)
    /\ IdleEntry
    /\ IdleParse
    /\ IdlePipe
    /\ IdleIon
    /\ IdleConv
    /\ input_pages \in PagedTexts
    /\ start \in { Digits(o) : o \in EntityOffsets(input_pages) }
    /\ page_ends = << >>
    /\ page = IntPage(1)
    /\ gpc = "page_ends"

NextPage ==
    \/ ComputePageEnds
    \/ AssignPage

SpecPage == InitPage /\ [][NextPage]_vars

\* ------------------------------------------------------- claims: SpecPage

Sorted(a) == \A j, k \in 1..Len(a) : j < k => a[j] <= a[k]

\* The 1-based position of the first boundary that is >= the offset.
FirstBoundaryAtLeast(a, x) ==
    CHOOSE k \in 1..Len(a) : a[k] >= x /\ \A j \in 1..(k - 1) : a[j] < x

\* C12: for a sorted list of boundaries and a start offset not greater than
\* the last boundary, the page is the 1-based position of the first boundary
\* that is >= the offset; an offset equal to a boundary gets the page of that
\* boundary, not the next one.
C12_LeftmostInsertion ==
    (gpc = "assigned" /\ Sorted(page_ends) /\ page_ends # << >>
       /\ IntOf(start) <= page_ends[Len(page_ends)])
    => page = StrPage(FirstBoundaryAtLeast(page_ends, IntOf(start)))

\* An offset equal to the second of three distinct boundaries.
C12_Witness ==
    /\ gpc = "assigned"
    /\ Len(page_ends) = 3
    /\ page_ends[1] < page_ends[2] /\ page_ends[2] < page_ends[3]
    /\ IntOf(start) = page_ends[2]
    /\ page = StrPage(2)

\* C13: a start offset greater than every boundary gets the last page, the
\* number of boundaries, never a page beyond the pages of the text.
C13_LastPageBeyondBoundaries ==
    (gpc = "assigned" /\ page_ends # << >>
       /\ IntOf(start) > page_ends[Len(page_ends)])
    => page = StrPage(Len(page_ends))

\* The positions of the pages with text, in order.
PagesWithText ==
    SelectSeq([k \in 1..Len(input_pages) |-> k],
              LAMBDA k : ~input_pages[k].blank)

\* The offset in the whole text of the last character of page k.
LastOffset(k) == PageOffset(input_pages, k) + input_pages[k].len - 1

\* C23: page_ends holds, for each page with text in order, the offset in the
\* whole text of the last character of that page, and an entity that starts
\* inside the k-th page with text gets the page k.
C23_CumulativeEndOffsets ==
    gpc \in {"loop", "assigned"}
    => /\ page_ends = [j \in 1..Len(PagesWithText) |-> LastOffset(PagesWithText[j])]
       /\ gpc = "assigned"
          => \E j \in 1..Len(PagesWithText) :
               /\ PageOffset(input_pages, PagesWithText[j]) <= IntOf(start)
               /\ IntOf(start) <= LastOffset(PagesWithText[j])
               /\ page = StrPage(j)

\* ------------------------------------------- ChemSpot.process: ion entities

\* The character classes of RE_ION and RE_CHARGE.
UpperChars == {"F", "K"}
LowerChars == {"e"}
DigitChars == {"0", "1", "2", "3", "4", "5", "6", "7", "8", "9"}

\* str(k) as characters.
StrOf(k) ==
    LET names == << "0", "1", "2", "3", "4", "5", "6", "7", "8", "9" >>
        ds == Digits(k)
    IN  [j \in 1..Len(ds) |-> names[ds[j] + 1]]

\* The length of the longest run of characters of set that starts at pos.
RECURSIVE Run(_, _, _)
Run(str, pos, set) ==
    IF pos <= Len(str) /\ str[pos] \in set THEN 1 + Run(str, pos + 1, set) ELSE 0

\* One optional character: the position after it.
Opt(str, pos, c) == IF pos <= Len(str) /\ str[pos] = c THEN pos + 1 ELSE pos

\* -?\+?i+\+?-? and -?\+?I+\+?-? on the whole of c, numeral the i or the I.
RomanCharge(c, numeral) ==
    LET p == Opt(c, Opt(c, 1, "-"), "+")
        r == Run(c, p, {numeral})
    IN  r >= 1 /\ Opt(c, Opt(c, p + r, "+"), "-") = Len(c) + 1

\* \d+\+ and \d+- on the whole of c
DigitsThenSign(c, sign) ==
    Len(c) >= 2 /\ Run(c, 1, DigitChars) = Len(c) - 1 /\ c[Len(c)] = sign

\* \+\d+ and -\d+ on the whole of c
SignThenDigits(c, sign) ==
    Len(c) >= 2 /\ c[1] = sign /\ Run(c, 2, DigitChars) = Len(c) - 1

\* \++ and -+ on the whole of c
OnlySigns(c, sign) == Len(c) >= 1 /\ Run(c, 1, {sign}) = Len(c)

\* The group charge of RE_ION: one of its eight alternatives takes all of c.
ChargeGrammar(c) ==
    \/ RomanCharge(c, "i") \/ RomanCharge(c, "I")
    \/ DigitsThenSign(c, "+") \/ DigitsThenSign(c, "-")
    \/ SignThenDigits(c, "+") \/ SignThenDigits(c, "-")
    \/ OnlySigns(c, "+") \/ OnlySigns(c, "-")

\* RE_ION.match(entity): \s*, [A-Z][a-z]?, \s*, "(", the charge, ")", \s*, end.
ReIonMatch(entity) ==
    LET p1 == 1 + Run(entity, 1, {SP})
        p2 == IF p1 <= Len(entity) /\ entity[p1] \in UpperChars THEN p1 + 1 ELSE 0
        p3 == IF p2 # 0 /\ p2 <= Len(entity) /\ entity[p2] \in LowerChars
              THEN p2 + 1 ELSE p2
        p4 == p3 + Run(entity, p3, {SP})
        p5 == IF p2 # 0 /\ p4 <= Len(entity) /\ entity[p4] = "(" THEN p4 + 1 ELSE 0
        p6 == p5 + Run(entity, p5, Range(entity) \ {")"})
        p7 == IF p5 # 0 /\ p6 <= Len(entity) /\ entity[p6] = ")" THEN p6 + 1 ELSE 0
        charge == SubSeq(entity, p5, p6 - 1)
    IN  IF p7 # 0 /\ p7 + Run(entity, p7, {SP}) = Len(entity) + 1
           /\ ChargeGrammar(charge)
        THEN [matched |-> TRUE, ion |-> SubSeq(entity, p1, p3 - 1), charge |-> charge]
        ELSE NoMatch

\* RE_CHARGE.search(c): the leftmost position at which one of roman, digit,
\* signs matches, tried in this order at every position.
RECURSIVE ReChargeSearchFrom(_, _)
ReChargeSearchFrom(c, pos) ==
    IF pos > Len(c) THEN NoGroup
    ELSE IF Run(c, pos, {"i"}) > 0
    THEN [kind |-> "roman", text |-> SubSeq(c, pos, pos + Run(c, pos, {"i"}) - 1)]
    ELSE IF Run(c, pos, {"I"}) > 0
    THEN [kind |-> "roman", text |-> SubSeq(c, pos, pos + Run(c, pos, {"I"}) - 1)]
    ELSE IF Run(c, pos, DigitChars) > 0
    THEN [kind |-> "digit", text |-> SubSeq(c, pos, pos + Run(c, pos, DigitChars) - 1)]
    ELSE IF pos = 1 /\ Run(c, 1, {"+"}) > 0
    THEN [kind |-> "signs", text |-> SubSeq(c, 1, Run(c, 1, {"+"}))]
    ELSE IF Run(c, pos, {"-"}) > 0 /\ pos + Run(c, pos, {"-"}) = Len(c) + 1
    THEN [kind |-> "signs", text |-> SubSeq(c, pos, Len(c))]
    ELSE ReChargeSearchFrom(c, pos + 1)

ReChargeSearch(c) == ReChargeSearchFrom(c, 1)

\* The smiles built from the groups of the two matches.
IonSmiles(ion, charge, g) ==
    IF g.kind = "roman"
    THEN << "[" >> \o ion \o << "+" >> \o StrOf(Len(g.text)) \o << "]" >>
    ELSE IF g.kind = "digit"
    THEN IF "+" \in Range(charge)
         THEN << "[" >> \o ion \o << "+" >> \o g.text \o << "]" >>
         ELSE << "[" >> \o ion \o << "-" >> \o g.text \o << "]" >>
    ELSE << "[" >> \o ion \o << g.text[1] >> \o StrOf(Len(g.text)) \o << "]" >>

\* MolToInchi and InchiToInchiKey of the molecule of a smiles.
InchiOf(smi) == << "InChI=" >> \o smi
InchiKeyOf(inchi) == << "key:" >> \o inchi

EmptyIds == [smiles |-> << >>, inchi |-> << >>, inchikey |-> << >>]

\* match_ion = self.re_ion.match(ent["entity"]); no match: the empty ids.
IonMatch ==
    /\ ipc = "match"
    /\ match_ion' = ReIonMatch(ion_entity)
    /\ IF match_ion'.matched
       THEN ipc' = "charge" /\ ion_ids' = ion_ids
       ELSE ipc' = "done" /\ ion_ids' = EmptyIds
    /\ UNCHANGED <<ion_entity, match_charge, smiles>>
    /\ UNCHANGED notIonVars

\* match_charge = self.re_charge.search(match_ion["charge"]) and the smiles
IonCharge ==
    /\ ipc = "charge"
    /\ match_charge' = ReChargeSearch(match_ion.charge)
    /\ IF match_charge'.kind # "none"
       THEN /\ smiles' = IonSmiles(match_ion.ion, match_ion.charge, match_charge')
            /\ ipc' = "mol"
       ELSE /\ smiles' = smiles
            /\ ipc' = "done"
    /\ UNCHANGED <<ion_entity, match_ion, ion_ids>>
    /\ UNCHANGED notIonVars

\* mol = MolFromSmiles(smiles); inchi = MolToInchi(mol): RDKit may give no
\* molecule, or a molecule and no InChI.
IonStructure ==
    /\ ipc = "mol"
    /\ \E rdkit \in {"no_mol", "no_inchi", "inchi"} :
         ion_ids' =
           IF rdkit = "no_mol" THEN EmptyIds
           ELSE IF rdkit = "no_inchi"
           THEN [smiles |-> smiles, inchi |-> << >>, inchikey |-> << >>]
           ELSE [smiles |-> smiles, inchi |-> InchiOf(smiles),
                 inchikey |-> InchiKeyOf(InchiOf(smiles))]
    /\ ipc' = "done"
    /\ UNCHANGED <<ion_entity, match_ion, match_charge, smiles>>
    /\ UNCHANGED notIonVars

\* --------------------------------------------------------------- SpecIon

ChargeChars == {"+", "-", "I", "i", "1", "2"}

ChargeTexts == UNION { [1..k -> ChargeChars] : k \in 0..MaxChargeLen }

IonEntities ==
    { pre \o << "(" >> \o c \o << ")" >> :
        pre \in { << "F", "e" >>, << "K" >>, << "e" >> }, c \in ChargeTexts }

InitIon ==
    /\ IdleSchema
    /\ IdleAnnot("", 0)
    /\ IdleEntry
    /\ IdleParse
    /\ IdlePipe
    /\ IdlePage
    /\ IdleConv
    /\ ion_entity \in IonEntities
    /\ match_ion = NoMatch
    /\ match_charge = NoGroup
    /\ smiles = << >>
    /\ ion_ids = NoIds
    /\ ipc = "match"

NextIon ==
    \/ IonMatch
    \/ IonCharge
    \/ IonStructure

SpecIon == InitIon /\ [][NextIon]_vars

\* -------------------------------------------------------- claims: SpecIon

\* The ion notation has been produced for an entity of the ion grammar.
IonConverted == ipc \in {"mol", "done"} /\ match_ion.matched

Count(str, set) == Cardinality({ k \in 1..Len(str) : str[k] \in set })

Without(str, set) == SelectSeq(str, LAMBDA c : c \notin set)

Notation(ion, sign, magnitude) ==
    << "[" >> \o ion \o << sign >> \o magnitude \o << "]" >>

\* C14: an ion whose charge holds Roman numeral characters, with or without
\* a sign before or after them, gets the notation [<Element>+<n>], n the
\* number of numeral characters; the signs do not count.
C14_RomanCharge ==
    (IonConverted /\ Count(match_ion.charge, {"I", "i"}) > 0)
    => smiles = Notation(match_ion.ion, "+",
                         StrOf(Count(match_ion.charge, {"I", "i"})))

\* C15: an ion whose charge is digits with one sign before or after them
\* gets the notation with the digits as magnitude and that sign as sign.
C15_DigitCharge ==
    (IonConverted /\ Count(match_ion.charge, DigitChars) > 0)
    => smiles = Notation(match_ion.ion,
                         IF "+" \in Range(match_ion.charge) THEN "+" ELSE "-",
                         Without(match_ion.charge, {"+", "-"}))

\* C17: after the ion conversion of ChemSpot.process, smiles, inchi and
\* inchikey of the entity are all empty, or all non-empty and derived from
\* one structure (inchi from the SMILES, inchikey from that inchi).
C17_IdsAllOrNone ==
    ipc = "done"
    => \/ ion_ids = EmptyIds
       \/ /\ ion_ids.smiles # << >>
          /\ ion_ids.inchi = InchiOf(ion_ids.smiles)
          /\ ion_ids.inchikey = InchiKeyOf(ion_ids.inchi)

\* ------------------------- the backends' processes and conversion loops

\* A record of compounds: the line it comes from, its structure fields (one
\* value stands for smiles, inchi and inchikey), whether the molecule was
\* standardized, its error message.
Compound(k, structure, standardized, error) ==
    [ line |-> k, structure |-> structure, standardized |-> standardized,
      error |-> error ]

\* OPSIN.process: common_subprocess and the split of its output; the exit
\* code is kept in to_return and not looked at.
OpsinRun ==
    /\ backend = "opsin" /\ cpc = "run"
    /\ opsin_e' = 0
    /\ item' = 1
    /\ cpc' = "loop"
    /\ UNCHANGED <<backend, proc, outputs, compounds, cerr>>
    /\ UNCHANGED notConvVars

\* OPSIN.process: one iteration of for i, line in enumerate(lines)
OpsinLine ==
    /\ backend = "opsin" /\ cpc = "loop"
    /\ item <= proc.lines
    /\ IF item > Len(outputs)
       THEN \* stdout[i]
            /\ cerr' = "IndexError" /\ cpc' = "raised"
            /\ UNCHANGED <<item, compounds, opsin_e>>
       ELSE IF outputs[item] = "unconverted"
       THEN IF opsin_e = -1
            THEN \* stderr[e] with e unbound
                 /\ cerr' = "UnboundLocalError" /\ cpc' = "raised"
                 /\ UNCHANGED <<item, compounds, opsin_e>>
            ELSE \* stderr[e].strip(), "" when stderr has no such line
                 /\ \E error \in {"stderr of OPSIN", ""} :
                      compounds' = Append(compounds,
                                          Compound(item, "", FALSE, error))
                 /\ opsin_e' = opsin_e + 1
                 /\ item' = item + 1
                 /\ UNCHANGED <<cerr, cpc>>
       ELSE IF outputs[item] = "unparsable"
       THEN \* self.logger.warning(compounds[-1].error)
            /\ cerr' = IF compounds = << >> THEN "IndexError" ELSE "AttributeError"
            /\ cpc' = "raised"
            /\ UNCHANGED <<item, compounds, opsin_e>>
       ELSE IF outputs[item] = "std_fail"
       THEN \* except ValueError as e: the name e is unbound afterwards
            /\ compounds' = Append(compounds, Compound(item, "structure", FALSE, ""))
            /\ opsin_e' = -1
            /\ item' = item + 1
            /\ UNCHANGED <<cerr, cpc>>
       ELSE /\ compounds' = Append(compounds, Compound(item, "structure", TRUE, ""))
            /\ item' = item + 1
            /\ UNCHANGED <<opsin_e, cerr, cpc>>
    /\ UNCHANGED <<backend, proc, outputs>>
    /\ UNCHANGED notConvVars

\* OPSIN.process: to_return["content"] = compounds
OpsinReturn ==
    /\ backend = "opsin" /\ cpc = "loop"
    /\ item > proc.lines
    /\ cpc' = "returned"
    /\ UNCHANGED <<backend, proc, outputs, item, compounds, opsin_e, cerr>>
    /\ UNCHANGED notConvVars

\* OSRA.process: _process and the summary; no exit code is looked at.
OsraRun ==
    /\ backend = "osra" /\ cpc = "run"
    /\ item' = 1
    /\ cpc' = "loop"
    /\ UNCHANGED <<backend, proc, outputs, compounds, opsin_e, cerr>>
    /\ UNCHANGED notConvVars

\* OSRA.process: one iteration of for line in lines
OsraLine ==
    /\ backend = "osra" /\ cpc = "loop"
    /\ item <= Len(outputs)
    /\ compounds' =
         IF outputs[item] = "unparsable" THEN compounds
         ELSE Append(compounds,
                     Compound(item, "structure", outputs[item] # "std_fail", ""))
    /\ item' = item + 1
    /\ UNCHANGED <<backend, proc, outputs, opsin_e, cerr, cpc>>
    /\ UNCHANGED notConvVars

\* OSRA.process: to_return["content"] = sorted(compounds, ...); return
OsraReturn ==
    /\ backend = "osra" /\ cpc = "loop"
    /\ item > Len(outputs)
    /\ cpc' = "returned"
    /\ UNCHANGED <<backend, proc, outputs, item, compounds, opsin_e, cerr>>
    /\ UNCHANGED notConvVars

\* ChemSpot.process: common_subprocess, the test of stderr, parse_chemspot
\* (rows of four fields: one entity per row).
ChemSpotRun ==
    /\ backend = "chemspot" /\ cpc = "run"
    /\ IF proc.out_of_memory
       THEN /\ cerr' = "RuntimeError" /\ cpc' = "raised"
            /\ UNCHANGED compounds
       ELSE /\ compounds' = [k \in 1..Len(outputs) |-> Compound(k, "", FALSE, "")]
            /\ cpc' = "returned"
            /\ UNCHANGED cerr
    /\ UNCHANGED <<backend, proc, outputs, item, opsin_e>>
    /\ UNCHANGED notConvVars

\* -------------------------------------------------------------- SpecConv

\* What a backend prints for one item: a structure RDKit reads; one the
\* standardizer rejects; a string RDKit cannot read; for OPSIN an empty line.
Outcomes3 == {"ok", "std_fail", "unparsable"}
OpsinOutcomes == Outcomes3 \cup {"unconverted"}

Batches(outcomes, len) == [1..len -> outcomes]

\* A backend that exits with 0 prints a line for every line it was given;
\* one that fails may stop before.
InitConv ==
    /\ IdleSchema
    /\ IdleAnnot("", 0)
    /\ IdleEntry
    /\ IdleParse
    /\ IdlePipe
    /\ IdlePage
    /\ IdleIon
    /\ backend \in {"opsin", "osra", "chemspot"}
    /\ proc \in [ lines : 1..MaxItems, exit_code : {0, 1},
                  out_of_memory : BOOLEAN ]
    /\ proc.out_of_memory => (backend = "chemspot" /\ proc.exit_code = 1)
    /\ \E len \in 0..proc.lines :
         /\ proc.exit_code = 0 /\ backend = "opsin" => len = proc.lines
         /\ outputs \in Batches(IF backend = "opsin" THEN OpsinOutcomes
                                ELSE IF backend = "osra" THEN Outcomes3
                                ELSE {"ok"}, len)
    /\ item = 1
    /\ compounds = << >>
    /\ opsin_e = 0
    /\ cerr = ""
    /\ cpc = "run"

NextConv ==
    \/ OpsinRun
    \/ OpsinLine
    \/ OpsinReturn
    \/ OsraRun
    \/ OsraLine
    \/ OsraReturn
    \/ ChemSpotRun

SpecConv == InitConv /\ [][NextConv]_vars

\* ------------------------------------------------------- claims: SpecConv

ConvEnded == cpc \in {"returned", "raised"}

\* The lines of the batch whose output RDKit reads.
Readable == { k \in 1..Len(outputs) : outputs[k] \in {"ok", "std_fail"} }

\* The record of compounds for line k, the empty set when there is none.
RecordsOf(k) == { compounds[j] : j \in { h \in 1..Len(compounds) : compounds[h].line = k } }

\* C16: in a batch of OPSIN.process or OSRA.process, an output that RDKit
\* cannot read is a failure of that item alone: OPSIN gives the item a
\* non-empty error and empty structure fields, OSRA skips it, every other
\* item is converted and the call returns.
C16_PerItemFailure ==
    (ConvEnded /\ backend \in {"opsin", "osra"} /\ proc.exit_code = 0
       /\ \E k \in 1..Len(outputs) : outputs[k] = "unparsable")
    => /\ cerr = ""
       /\ \A k \in Readable :
            \E c \in RecordsOf(k) : c.structure # "" /\ c.error = ""
       /\ \A k \in 1..Len(outputs) :
            outputs[k] = "unparsable"
            => IF backend = "opsin"
               THEN \E c \in RecordsOf(k) : c.structure = "" /\ c.error # ""
               ELSE RecordsOf(k) = {}

\* C19: a backend process that exits with a non-zero code makes process()
\* raise; it does not return as if the backend had recognized nothing.
C19_NonZeroExitFatal ==
    (ConvEnded /\ proc.exit_code # 0) => cerr # ""

\* C27: in OPSIN.process and OSRA.process a failure of the standardization
\* of one item keeps the structure of its unstandardized molecule, and every
\* other item of the batch is processed: the call returns, the items RDKit
\* reads have their structure, and a name OPSIN did not convert has its
\* record with empty structure fields.
C27_StandardizationFailureIsLocal ==
    (/\ ConvEnded
     /\ backend \in {"opsin", "osra"}
     /\ proc.exit_code = 0
     /\ \A k \in 1..Len(outputs) : outputs[k] # "unparsable"
     /\ \E k \in 1..Len(outputs) : outputs[k] = "std_fail")
    => /\ cerr = ""
       /\ \A k \in 1..Len(outputs) :
            \E c \in RecordsOf(k) :
              CASE outputs[k] = "std_fail" ->
                     c.structure # "" /\ ~c.standardized /\ c.error = ""
                [] outputs[k] = "ok" ->
                     c.structure # "" /\ c.standardized /\ c.error = ""
                [] OTHER -> c.structure = ""

\* ------------------------------------- the columns of the returned entities
\* One value stands for the three structure identifiers of an entity (field
\* smiles) and one for its annotation columns (field cols); Absent is a key
\* the dict does not have. Output files are not written here.

\* ent.update(...) of ChemSpot.process with annotate
ChemSpotColumns ==
    { "pch_cids_by_inchikey", "chs_cids_by_inchikey", "pch_cids_by_name",
      "chs_cids_by_name", "pch_cids_by_smiles", "chs_cids_by_smiles",
      "pch_cids_by_inchi", "chs_cids_by_inchi", "pch_cids_by_formula",
      "pch_iupac_name", "chs_common_name", "pch_synonyms" }

\* ent.update(...) of OSRA.process with annotate
OsraColumns ==
    { "pch_cids_by_inchikey", "chs_cids_by_inchikey", "pch_cids_by_smiles",
      "chs_cids_by_smiles", "pch_cids_by_inchi", "chs_cids_by_inchi",
      "pch_iupac_name", "chs_common_name", "pch_synonyms" }

\* The keys of an entity of ChemSpot.process, of a compound of OSRA.process,
\* of a row of Extractor.process.
EntityKeys(e) ==
    Range(ChemSpotKeys(e)) \cup (IF e.cols = Absent THEN {} ELSE ChemSpotColumns)

CompoundKeys(c) ==
    Range(OsraKeys) \cup (IF c.cols = Absent THEN {} ELSE OsraColumns)

RowKeys(r) ==
    Range(ExtractorKeys) \cup (IF r.cols = Absent THEN {} ELSE ChemSpotColumns)

\* to_convert of ChemSpot.process: is the entity of kind q in it
InToConvert(q) ==
    /\ flags.api = "chemspot" /\ flags.opsin_types
    /\ q.convertible
    /\ flags.convert_ions => ~q.ion

\* if convert_ions: the identifiers of an ion, the empty ones otherwise
WithIon(e, q) ==
    IF flags.convert_ions
    THEN [e EXCEPT !.smiles = IF q.ion THEN "ion" ELSE ""]
    ELSE e

\* if opsin_types and to_convert: the three branches
WithConverted(e, q) ==
    IF \E k \in 1..Len(detected) : InToConvert(detected[k])
    THEN IF InToConvert(q)
         THEN [e EXCEPT !.smiles = "opsin", !.opsin_error = ""]
         ELSE IF flags.convert_ions /\ q.ion
         THEN [e EXCEPT !.opsin_error = ""]
         ELSE [e EXCEPT !.smiles = "", !.opsin_error = ""]
    ELSE e

\* if annotate: the twelve empty columns, then the searches. A unique hit
\* assigns ent[f] = value or ent[f] for the three identifiers: a hit with all
\* three ("single") sets them; one that lacks some ("partial") reads ent[f].
WithAnnotation(e, q) ==
    IF ~flags.annotate THEN [ent |-> e, exc |-> ""]
    ELSE LET c == [e EXCEPT !.cols = ""]
         IN  IF q.lookup = "none" THEN [ent |-> c, exc |-> ""]
             ELSE IF q.lookup = "single"
                  THEN [ent |-> [c EXCEPT !.smiles = "db"], exc |-> ""]
             ELSE IF c.smiles = Absent THEN [ent |-> c, exc |-> "KeyError"]
             ELSE [ent |-> [c EXCEPT !.smiles = "mixed"], exc |-> ""]

\* OSRA.process: the compounds, with the nine columns when annotate is set;
\* the searches do not assign the identifiers.
SchemaOsra ==
    /\ spc = "osra"
    /\ ocsr_content' =
         [k \in 1..Len(structures) |->
            [ smiles |-> "osra",
              cols |-> IF flags.annotate THEN "" ELSE Absent ]]
    /\ spc' = IF flags.api = "osra" THEN "returned" ELSE "chemspot"
    /\ UNCHANGED <<flags, detected, structures, ner_content, merged, spos, serr>>
    /\ UNCHANGED notSchemaVars

\* ChemSpot.process: one iteration of for i, ent in enumerate(content)
SchemaChemSpotEntity ==
    /\ spc = "chemspot"
    /\ spos <= Len(detected)
    /\ LET q == detected[spos]
           e == [kind |-> q, smiles |-> Absent, opsin_error |-> Absent,
                 cols |-> Absent]
           a == WithAnnotation(WithConverted(WithIon(e, q), q), q)
       IN  IF a.exc # ""
           THEN /\ serr' = a.exc /\ spc' = "raised"
                /\ UNCHANGED <<ner_content, spos>>
           ELSE /\ ner_content' = Append(ner_content, a.ent)
                /\ spos' = spos + 1
                /\ UNCHANGED <<serr, spc>>
    /\ UNCHANGED <<flags, detected, structures, ocsr_content, merged>>
    /\ UNCHANGED notSchemaVars

\* ChemSpot.process: return to_return
SchemaChemSpotReturn ==
    /\ spc = "chemspot"
    /\ spos > Len(detected)
    /\ spc' = IF flags.api = "chemspot" THEN "returned" ELSE "join"
    /\ UNCHANGED <<flags, detected, structures, ner_content, ocsr_content,
                   merged, spos, serr>>
    /\ UNCHANGED notSchemaVars

\* Extractor.process: a row of results for a compound of OSRA
SchemaOsraRow(c) ==
    [ source |-> "osra", smiles |-> c.smiles, opsin_error |-> "",
      cols |-> IF flags.annotate THEN "" ELSE Absent ]

\* Extractor.process: a row of results for an entity of ChemSpot
SchemaChemSpotRow(e) ==
    [ source |-> "chemspot",
      smiles |-> IF flags.opsin_types /\ e.kind.convertible THEN "opsin" ELSE "",
      opsin_error |-> "",
      cols |-> IF flags.annotate THEN e.cols ELSE Absent ]

\* Extractor.process: the two loops of "Joining results..."
SchemaJoin ==
    /\ spc = "join"
    /\ merged' = [k \in 1..Len(ocsr_content) |-> SchemaOsraRow(ocsr_content[k])]
                 \o [k \in 1..Len(ner_content) |-> SchemaChemSpotRow(ner_content[k])]
    /\ spc' = "returned"
    /\ UNCHANGED <<flags, detected, structures, ner_content, ocsr_content,
                   spos, serr>>
    /\ UNCHANGED notSchemaVars

\* ------------------------------------------------------------- SpecSchema

\* An entity by its kind: whether RE_ION matches it, whether its type is one
\* of opsin_types; and by what the databases return for it: nothing or many
\* compounds, one compound with the three identifiers, one that lacks some.
EntityKinds ==
    [ ion : BOOLEAN, convertible : BOOLEAN,
      lookup : {"none", "single", "partial"} ]

DetectedKinds == UNION { [1..k -> EntityKinds] : k \in 0..MaxEnts }

StructureLists == { << >>, << "s" >>, << "s", "s" >> }

InitSchema ==
    /\ IdleAnnot("", 0)
    /\ IdleEntry
    /\ IdleParse
    /\ IdlePipe
    /\ IdlePage
    /\ IdleIon
    /\ IdleConv
    /\ flags \in [ api : {"chemspot", "osra", "extractor"}, annotate : BOOLEAN,
                   convert_ions : BOOLEAN, opsin_types : BOOLEAN ]
    /\ flags.api = "osra" => ~flags.convert_ions /\ ~flags.opsin_types
    /\ detected \in DetectedKinds
    /\ flags.api = "osra" => detected = << >>
    /\ structures \in StructureLists
    /\ flags.api = "chemspot" => structures = << >>
    /\ ner_content = << >>
    /\ ocsr_content = << >>
    /\ merged = << >>
    /\ spos = 1
    /\ serr = ""
    /\ spc = IF flags.api = "chemspot" THEN "chemspot" ELSE "osra"

NextSchema ==
    \/ SchemaOsra
    \/ SchemaChemSpotEntity
    \/ SchemaChemSpotReturn
    \/ SchemaJoin

SpecSchema == InitSchema /\ [][NextSchema]_vars

\* ----------------------------------------------------- claims: SpecSchema

\* The key sets of the entities of the result the call returns.
ReturnedKeys ==
    IF flags.api = "chemspot"
    THEN { EntityKeys(ner_content[k]) : k \in 1..Len(ner_content) }
    ELSE IF flags.api = "osra"
    THEN { CompoundKeys(ocsr_content[k]) : k \in 1..Len(ocsr_content) }
    ELSE { RowKeys(merged[k]) : k \in 1..Len(merged) }

\* C18: all the entities of one returned result have the same set of keys,
\* and with annotate every annotation column is a key of every entity.
C18_FixedWidth ==
    spc = "returned"
    => /\ Cardinality(ReturnedKeys) <= 1
       /\ flags.annotate
          => \A ks \in ReturnedKeys :
               (IF flags.api = "osra" THEN OsraColumns ELSE ChemSpotColumns)
                 \subseteq ks

\* C20: in the merged list of Extractor.process, an entity that left
\* ChemSpot.process with non-empty structure identifiers (of its ion, or of
\* a unique database hit by name) carries them.
C20_MergedKeepsChemSpotIds ==
    (spc = "returned" /\ flags.api = "extractor")
    => \A k \in 1..Len(ner_content) :
         ner_content[k].smiles \notin {Absent, ""}
         => merged[Len(ocsr_content) + k].smiles = ner_content[k].smiles

\* ------------------------------------------- the head of a process method
\* Conversions of the input file to text (pdftotext, tesseract) are not
\* followed: subprocess_calls counts the runs of the backend binary.

\* A row of parse_chemspot and a row of parse_chemspot_iob, by its keys.
EntityRowKeys == {"start", "end", "page", "abbreviation", "entity", "type"}
IobRowKeys == {"string", "start", "end", "page", "type"}

ParsedKeys == IF call_args.iob_format THEN IobRowKeys ELSE EntityRowKeys

\* OPSIN.process: common_subprocess(commands, stdin=input)
OpsinSubprocess ==
    /\ call_args.method = "opsin" /\ epc = "entered"
    /\ subprocess_calls' = subprocess_calls + 1
    /\ epc' = "dry_run"
    /\ UNCHANGED <<call_args, chemspot_rows, retval, has_to_convert, epos, eerr>>
    /\ UNCHANGED notEntryVars

\* OPSIN.process: if dry_run: return " ".join(commands); the conversion
\* loop follows otherwise.
OpsinDryRun ==
    /\ call_args.method = "opsin" /\ epc = "dry_run"
    /\ retval' = IF call_args.dry_run THEN "command" ELSE "to_return"
    /\ epc' = "returned"
    /\ UNCHANGED <<call_args, chemspot_rows, subprocess_calls, has_to_convert,
                   epos, eerr>>
    /\ UNCHANGED notEntryVars

\* OSRA.process: if dry_run: return " ".join(commands)
OsraDryRun ==
    /\ call_args.method = "osra" /\ epc = "entered"
    /\ IF call_args.dry_run
       THEN retval' = "command" /\ epc' = "returned"
       ELSE retval' = retval /\ epc' = "run"
    /\ UNCHANGED <<call_args, chemspot_rows, subprocess_calls, has_to_convert,
                   epos, eerr>>
    /\ UNCHANGED notEntryVars

\* OSRA.process: self._process(...) on the input; the compounds follow.
OsraSubprocess ==
    /\ call_args.method = "osra" /\ epc = "run"
    /\ subprocess_calls' = subprocess_calls + 1
    /\ retval' = "to_return"
    /\ epc' = "returned"
    /\ UNCHANGED <<call_args, chemspot_rows, has_to_convert, epos, eerr>>
    /\ UNCHANGED notEntryVars

\* ChemSpot.process: if dry_run: return " ".join(commands)
ChemSpotDryRun ==
    /\ call_args.method = "chemspot" /\ epc = "entered"
    /\ IF call_args.dry_run
       THEN retval' = "command" /\ epc' = "returned"
       ELSE retval' = retval /\ epc' = "run"
    /\ UNCHANGED <<call_args, chemspot_rows, subprocess_calls, has_to_convert,
                   epos, eerr>>
    /\ UNCHANGED notEntryVars

\* ChemSpot.process: common_subprocess(commands), the parse of the output,
\* page_ends, and to_convert: the comprehension reads x["entity"] of every
\* row whose type is in opsin_types.
ChemSpotSubprocess ==
    /\ call_args.method = "chemspot" /\ epc = "run"
    /\ subprocess_calls' = subprocess_calls + 1
    /\ LET wanted == { k \in 1..Len(chemspot_rows) :
                         chemspot_rows[k] \in call_args.opsin_types }
       IN  IF wanted # {} /\ "entity" \notin ParsedKeys
           THEN /\ eerr' = "KeyError" /\ epc' = "raised"
                /\ UNCHANGED has_to_convert
           ELSE /\ has_to_convert' = (wanted # {})
                /\ epc' = "loop"
                /\ UNCHANGED eerr
    /\ epos' = 1
    /\ UNCHANGED <<call_args, chemspot_rows, retval>>
    /\ UNCHANGED notEntryVars

\* The keys of ent that one iteration of the loop over the content reads:
\* start for the page; entity for re_ion.match, for the test
\* ent["entity"] in to_convert and for the search by name (an entity with no
\* conversion has no inchikey, so the name branch is taken).
EntityReads ==
    (IF call_args.paged_text THEN {"start"} ELSE {})
    \cup (IF call_args.convert_ions THEN {"entity"} ELSE {})
    \cup (IF call_args.opsin_types # {} /\ has_to_convert THEN {"entity"} ELSE {})
    \cup (IF call_args.annotate THEN {"entity"} ELSE {})

\* ChemSpot.process: one iteration of for i, ent in enumerate(content)
ChemSpotEntity ==
    /\ call_args.method = "chemspot" /\ epc = "loop"
    /\ epos <= Len(chemspot_rows)
    /\ IF EntityReads \subseteq ParsedKeys
       THEN epos' = epos + 1 /\ UNCHANGED <<eerr, epc>>
       ELSE eerr' = "KeyError" /\ epc' = "raised" /\ UNCHANGED epos
    /\ UNCHANGED <<call_args, chemspot_rows, subprocess_calls, retval,
                   has_to_convert>>
    /\ UNCHANGED notEntryVars

\* ChemSpot.process: return to_return
ChemSpotReturn ==
    /\ call_args.method = "chemspot" /\ epc = "loop"
    /\ epos > Len(chemspot_rows)
    /\ retval' = "to_return"
    /\ epc' = "returned"
    /\ UNCHANGED <<call_args, chemspot_rows, subprocess_calls, has_to_convert,
                   epos, eerr>>
    /\ UNCHANGED notEntryVars

\* -------------------------------------------------------------- SpecEntry

\* opsin_types: empty, the default, a list of IOB tags.
OpsinTypeLists == { {}, {"SYSTEMATIC"}, {"B-SYSTEMATIC", "I-SYSTEMATIC"} }

\* The types ChemSpot prints: entity types, or the tags of the IOB format.
RowTypes(iob) ==
    IF iob THEN {"O", "B-SYSTEMATIC"} ELSE {"SYSTEMATIC", "FORMULA"}

InitEntry ==
    /\ IdleAnnot("", 0)
    /\ IdleParse
    /\ IdlePipe
    /\ IdlePage
    /\ IdleIon
    /\ IdleConv
    /\ IdleSchema
    /\ call_args \in [ method : {"opsin", "osra", "chemspot"},
                       dry_run : BOOLEAN, iob_format : BOOLEAN,
                       convert_ions : BOOLEAN, annotate : BOOLEAN,
                       paged_text : BOOLEAN, opsin_types : OpsinTypeLists ]
    /\ call_args.method # "chemspot"
       => /\ ~call_args.iob_format /\ ~call_args.convert_ions
          /\ ~call_args.annotate /\ ~call_args.paged_text
          /\ call_args.opsin_types = {}
    /\ IF call_args.method = "chemspot"
       THEN \E k \in 1..MaxEnts :
              chemspot_rows \in [1..k -> RowTypes(call_args.iob_format)]
       ELSE chemspot_rows = << >>
    /\ subprocess_calls = 0
    /\ retval = ""
    /\ has_to_convert = FALSE
    /\ epos = 1
    /\ eerr = ""
    /\ epc = "entered"

NextEntry ==
    \/ OpsinSubprocess
    \/ OpsinDryRun
    \/ OsraDryRun
    \/ OsraSubprocess
    \/ ChemSpotDryRun
    \/ ChemSpotSubprocess
    \/ ChemSpotEntity
    \/ ChemSpotReturn

SpecEntry == InitEntry /\ [][NextEntry]_vars

\* ------------------------------------------------------ claims: SpecEntry

\* C21: with dry_run the backend is not run: no subprocess call is made
\* before the command is returned.
C21_DryRunRunsNothing ==
    (call_args.method # "" /\ call_args.dry_run) => subprocess_calls = 0

\* C22: ChemSpot.process with iob_format and format_output returns the
\* parsed IOB rows without raising, for every setting of opsin_types,
\* convert_ions, annotate and paged_text.
C22_IobRowsReturned ==
    (call_args.method = "chemspot" /\ call_args.iob_format
       /\ ~call_args.dry_run /\ epc \in {"returned", "raised"})
    => eerr = "" /\ retval = "to_return"

====
